---- MODULE Spec2Model ----
(***************************************************************************)
(* Model of the sketch topology engine (Sketch, src/coordinate-system.js), *)
(* of the face grouping and picking engine (FaceSelector,                  *)
(* src/face-selector.js), of sketch planes (Plane, src/plane.js), of       *)
(* extrusion (Extrude, src/extrude.js) and of the editing session          *)
(* (SketchEditor, src/unnamed/part_002).                                   *)
(***************************************************************************)
EXTENDS Integers, Sequences, FiniteSets, TLC

VARIABLES
  vertices,         \* Sketch.vertices: sequence of [id, u, v]
  edges,            \* Sketch.edges: sequence of [id, v1, v2]
  nextVertexId,     \* Sketch.nextVertexId
  nextEdgeId,       \* Sketch.nextEdgeId
  geometry,         \* mesh uuid -> triangle soup of mesh.geometry.attributes.position
  faceGroupsCache,  \* FaceSelector.faceGroupsCache: mesh uuid -> result or NoEntry
  returned,         \* what the buildFaceGroups call of the step just taken returned
  hoverHighlight,   \* FaceSelector.hoverHighlight: the perimeter last drawn
  camera,           \* camera.position
  hoveredFace,      \* FaceSelector.hoveredFace: a mesh or null
  hoveredFaceIndex, \* FaceSelector.hoveredFaceIndex
  selectedFace,     \* FaceSelector.selectedFace: a mesh or null
  selectedFaceIndex,   \* FaceSelector.selectedFaceIndex
  selectedFaceGroup,   \* FaceSelector.selectedFaceGroup
  selectionHighlight,  \* FaceSelector.selectionHighlight
  contextMenu,      \* FaceSelector.contextMenu
  plane,            \* Sketch.plane, and the Plane last constructed
  constraints,      \* Sketch.constraints
  parameters,       \* Sketch.parameters: set of <<name, value>>
  extrudeReturned,  \* what the last Extrude.toGeometry or toMesh call returned
  roundTrip,        \* the last toWorld(u, v) and the toPlane of its result
  detecting,        \* the locals of a detectClosedLoops call under way, or its result
  activeSketch,     \* SketchEditor.activeSketch: a sketch container or null
  isEditing,        \* SketchEditor.isEditing
  editorWindow,     \* SketchEditor.editorWindow: the window is in the document
  savedCameraState, \* SketchEditor.savedCameraState
  savedBodiesVisibility,  \* SketchEditor.savedBodiesVisibility: a Map or null
  bodies,           \* kivi.objects.bodies: the folder's flag and its children
  sketches,         \* kivi.objects.sketches.children: the sketch containers
  rotationEnabled,  \* kivi.system.cameraController.rotationEnabled
  uuidsIssued,      \* how many body uuids three.js has generated
  bodiesAtOpening   \* history: kivi.objects.bodies when the session under way was opened

sketchVars == <<vertices, edges, nextVertexId, nextEdgeId>>

faceVars == <<geometry, faceGroupsCache, returned, hoverHighlight>>

selectVars == <<camera, hoveredFace, hoveredFaceIndex, selectedFace, selectedFaceIndex,
                selectedFaceGroup, selectionHighlight, contextMenu>>

\* What the Sketch operations leave alone, and what the face grouping does.
featureVars == <<plane, constraints, parameters, extrudeReturned, roundTrip>>

detectVars == <<detecting>>

editorVars == <<activeSketch, isEditing, editorWindow, savedCameraState,
                savedBodiesVisibility, bodies, sketches, rotationEnabled,
                uuidsIssued, bodiesAtOpening>>

besidesSketch == <<faceVars, selectVars, featureVars, detectVars, editorVars>>

besidesFace == <<sketchVars, selectVars, featureVars, detectVars, editorVars>>

besidesSelect == <<sketchVars, featureVars, detectVars, editorVars>>

besidesEditor == <<sketchVars, faceVars, selectVars, featureVars, detectVars>>

vars == <<vertices, edges, nextVertexId, nextEdgeId,
          geometry, faceGroupsCache, returned, hoverHighlight,
          camera, hoveredFace, hoveredFaceIndex, selectedFace, selectedFaceIndex,
          selectedFaceGroup, selectionHighlight, contextMenu,
          plane, constraints, parameters, extrudeReturned, roundTrip, detecting,
          activeSketch, isEditing, editorWindow, savedCameraState,
          savedBodiesVisibility, bodies, sketches, rotationEnabled,
          uuidsIssued, bodiesAtOpening>>

(***************************************************************************)
(* Bounds of the model.                                                    *)
(***************************************************************************)
MaxVertices == 4

MaxEdges == 4

\* Triangles of a mesh whose grouping is examined.
MaxTriangles == 3

\* Meshes whose cache entries are examined together.
NumMeshes == 2

\* Bodies ever added to the bodies folder, and sketch containers created.
MaxBodies == 2

MaxSketches == 2

\* Vertices of the largest ring drawn: 2 more than maxIterations.
MaxRing == 102

\* (u, v) positions offered to addVertex; topology never reads them.
VertexPositions == {<<0, 0>>}

MaxChords == 3

\* addBox(centerX, centerZ, width, height) inputs and the vertex ids of the
\* first box of a sketch.
BoxInputs == {<<0, 0, 2, 2>>}

BoxVertexIds == {0, 1, 2, 3}

(***************************************************************************)
(* Generic helpers.                                                        *)
(***************************************************************************)
Range(s) == {s[i] : i \in 1..Len(s)}

\* JavaScript's undefined, as returned by Array.prototype.find on no match.
Undefined == [undefined |-> TRUE]

\* Array.prototype.find: the element of s at the first of the matching
\* positions I, or undefined when none matches.
FindAt(s, I) ==
  IF I = {} THEN Undefined ELSE s[CHOOSE i \in I : \A j \in I : i <= j]

(***************************************************************************)
(* Sketch: construction.                                                   *)
(***************************************************************************)
SketchInit ==
  /\ vertices = <<>>
  /\ edges = <<>>
  /\ nextVertexId = 0
  /\ nextEdgeId = 0

addVertex(u, v) ==
  /\ vertices' = Append(vertices, [id |-> nextVertexId, u |-> u, v |-> v])
  /\ nextVertexId' = nextVertexId + 1
  /\ UNCHANGED <<edges, nextEdgeId>>

addEdge(v1Id, v2Id) ==
  /\ edges' = Append(edges, [id |-> nextEdgeId, v1 |-> v1Id, v2 |-> v2Id])
  /\ nextEdgeId' = nextEdgeId + 1
  /\ UNCHANGED <<vertices, nextVertexId>>

\* addBox: four addVertex calls (bottom-left, bottom-right, top-right,
\* top-left) and then four addEdge calls around them.
addBox(centerX, centerZ, width, height) ==
  LET halfW == width \div 2
      halfH == height \div 2
      v0 == [id |-> nextVertexId, u |-> centerX - halfW, v |-> centerZ - halfH]
      v1 == [id |-> nextVertexId + 1, u |-> centerX + halfW, v |-> centerZ - halfH]
      v2 == [id |-> nextVertexId + 2, u |-> centerX + halfW, v |-> centerZ + halfH]
      v3 == [id |-> nextVertexId + 3, u |-> centerX - halfW, v |-> centerZ + halfH]
  IN /\ vertices' = vertices \o <<v0, v1, v2, v3>>
     /\ nextVertexId' = nextVertexId + 4
     /\ edges' = edges \o <<[id |-> nextEdgeId, v1 |-> v0.id, v2 |-> v1.id],
                            [id |-> nextEdgeId + 1, v1 |-> v1.id, v2 |-> v2.id],
                            [id |-> nextEdgeId + 2, v1 |-> v2.id, v2 |-> v3.id],
                            [id |-> nextEdgeId + 3, v1 |-> v3.id, v2 |-> v0.id]>>
     /\ nextEdgeId' = nextEdgeId + 4

getVertex(id) == FindAt(vertices, {i \in 1..Len(vertices) : vertices[i].id = id})

getEdge(id) == FindAt(edges, {i \in 1..Len(edges) : edges[i].id = id})

(***************************************************************************)
(* Sketch: loop detection.                                                 *)
(***************************************************************************)
\* adjacencyMap.get(vertexId) || []: every edge is pushed on the list of its v1
\* and then on the list of its v2, in the order of this.edges.
RECURSIVE AdjacencyFrom(_, _)
AdjacencyFrom(vertexId, i) ==
  IF i > Len(edges) THEN <<>>
  ELSE (IF edges[i].v1 = vertexId THEN <<edges[i]>> ELSE <<>>)
       \o (IF edges[i].v2 = vertexId THEN <<edges[i]>> ELSE <<>>)
       \o AdjacencyFrom(vertexId, i + 1)

\* As adjacencyMap, with each edge pushed on the list of its v1 only.
RECURSIVE AdjacencyFromV1Only(_, _)
AdjacencyFromV1Only(vertexId, i) ==
  IF i > Len(edges) THEN <<>>
  ELSE (IF edges[i].v1 = vertexId THEN <<edges[i]>> ELSE <<>>)
       \o AdjacencyFromV1Only(vertexId, i + 1)

adjacencyMap_V1Only(vertexId) == AdjacencyFromV1Only(vertexId, 1)

\* As adjacencyMap, with every edge on the list of every vertex.
adjacencyMap_AllEdges(vertexId) == edges

adjacencyMap(vertexId) == AdjacencyFrom(vertexId, 1)

\* As maxIterations, with a cap no walk of the model can reach.
maxIterations_OutOfReach == MaxRing * MaxRing

maxIterations == 100

\* As OtherEndpoint, taking every edge as directed from v1 to v2.
OtherEndpoint_AlwaysV2(edge, currentVertex) == edge.v2

\* The far endpoint of an edge entered at currentVertex.
OtherEndpoint(edge, currentVertex) ==
  IF edge.v1 = currentVertex THEN edge.v2 ELSE edge.v1

\* The while loop of findLoop; null is modelled as the empty sequence (a loop
\* always holds its starting edge, so it is never empty).
RECURSIVE WalkLoop(_, _, _, _, _)
WalkLoop(loop, currentVertex, targetVertex, visitedEdges, iterationsLeft) ==
  IF iterationsLeft <= 0 THEN <<>>
  ELSE LET connectedEdges == adjacencyMap(currentVertex)
           nextEdge == FindAt(connectedEdges,
                              {i \in 1..Len(connectedEdges) :
                                 /\ connectedEdges[i].id \notin Range(loop)
                                 /\ connectedEdges[i].id \notin visitedEdges})
       IN IF nextEdge = Undefined THEN <<>>
          ELSE LET newLoop == Append(loop, nextEdge.id)
                   newVertex == OtherEndpoint(nextEdge, currentVertex)
               IN IF newVertex = targetVertex THEN newLoop
                  ELSE WalkLoop(newLoop, newVertex, targetVertex, visitedEdges,
                                iterationsLeft - 1)

\* As findLoop, walking until the walk is back at v2 of the starting edge.
findLoop_TargetV2(startEdge, visitedEdges) ==
  WalkLoop(<<startEdge.id>>, startEdge.v2, startEdge.v2, visitedEdges, maxIterations)

findLoop(startEdge, visitedEdges) ==
  WalkLoop(<<startEdge.id>>, startEdge.v2, startEdge.v1, visitedEdges, maxIterations)

\* The loop array of findLoop when it returns, whether or not the walk closed:
\* the starting edge and every edge the while loop pushed.
RECURSIVE WalkedLoop(_, _, _, _, _)
WalkedLoop(loop, currentVertex, targetVertex, visitedEdges, iterationsLeft) ==
  IF iterationsLeft <= 0 THEN loop
  ELSE LET connectedEdges == adjacencyMap(currentVertex)
           nextEdge == FindAt(connectedEdges,
                              {i \in 1..Len(connectedEdges) :
                                 /\ connectedEdges[i].id \notin Range(loop)
                                 /\ connectedEdges[i].id \notin visitedEdges})
       IN IF nextEdge = Undefined THEN loop
          ELSE LET newLoop == Append(loop, nextEdge.id)
                   newVertex == OtherEndpoint(nextEdge, currentVertex)
               IN IF newVertex = targetVertex THEN newLoop
                  ELSE WalkedLoop(newLoop, newVertex, targetVertex, visitedEdges,
                                  iterationsLeft - 1)

walkedEdges(startEdge, visitedEdges) ==
  WalkedLoop(<<startEdge.id>>, startEdge.v2, startEdge.v1, visitedEdges, maxIterations)

\* As DetectFrom, marking the starting edge of an attempt that found no loop
\* as visited.
RECURSIVE DetectFrom_MarkStart(_, _, _)
DetectFrom_MarkStart(i, loops, visitedEdges) ==
  IF i > Len(edges) THEN loops
  ELSE IF edges[i].id \in visitedEdges
       THEN DetectFrom_MarkStart(i + 1, loops, visitedEdges)
  ELSE LET loop == findLoop(edges[i], visitedEdges)
       IN IF loop # <<>> /\ Len(loop) >= 3
          THEN DetectFrom_MarkStart(i + 1, Append(loops, loop), visitedEdges \cup Range(loop))
          ELSE DetectFrom_MarkStart(i + 1, loops, visitedEdges \cup {edges[i].id})

\* As DetectFrom, with each found loop put at the front of loops.
RECURSIVE DetectFrom_Unshift(_, _, _)
DetectFrom_Unshift(i, loops, visitedEdges) ==
  IF i > Len(edges) THEN loops
  ELSE IF edges[i].id \in visitedEdges
       THEN DetectFrom_Unshift(i + 1, loops, visitedEdges)
  ELSE LET loop == findLoop(edges[i], visitedEdges)
       IN IF loop # <<>> /\ Len(loop) >= 3
          THEN DetectFrom_Unshift(i + 1, <<loop>> \o loops, visitedEdges \cup Range(loop))
          ELSE DetectFrom_Unshift(i + 1, loops, visitedEdges)

\* As DetectFrom, without marking the edges of a found loop as visited.
RECURSIVE DetectFrom_NoMark(_, _, _)
DetectFrom_NoMark(i, loops, visitedEdges) ==
  IF i > Len(edges) THEN loops
  ELSE IF edges[i].id \in visitedEdges
       THEN DetectFrom_NoMark(i + 1, loops, visitedEdges)
  ELSE LET loop == findLoop(edges[i], visitedEdges)
       IN IF loop # <<>> /\ Len(loop) >= 3
          THEN DetectFrom_NoMark(i + 1, Append(loops, loop), visitedEdges)
          ELSE DetectFrom_NoMark(i + 1, loops, visitedEdges)

\* The forEach over this.edges of detectClosedLoops, from edge i on.
RECURSIVE DetectFrom(_, _, _)
DetectFrom(i, loops, visitedEdges) ==
  IF i > Len(edges) THEN loops
  ELSE IF edges[i].id \in visitedEdges THEN DetectFrom(i + 1, loops, visitedEdges)
  ELSE LET loop == findLoop(edges[i], visitedEdges)
       IN IF loop # <<>> /\ Len(loop) >= 3
          THEN DetectFrom(i + 1, Append(loops, loop), visitedEdges \cup Range(loop))
          ELSE DetectFrom(i + 1, loops, visitedEdges)

detectClosedLoops == DetectFrom(1, <<>>, {})

(***************************************************************************)
(* Sketch.detectClosedLoops, one iteration at a time.                      *)
(***************************************************************************)
NotDetecting == [detecting |-> FALSE]

\* No findLoop call under way.
NoAttempt == [attempt |-> FALSE]

\* A call is under way.
Detecting == "index" \in DOMAIN detecting

\* The last call has returned.
Returned == "returned" \in DOMAIN detecting

\* What the caller holds of the call before this one: what it returned and
\* the edges of the sketch then.
LastCall ==
  IF Returned THEN [returned |-> detecting.returned, edges |-> detecting.edges]
  ELSE NotDetecting

\* As detectStart, with loops a field of the sketch that is never emptied.
detectStart_KeepsLoops ==
  /\ ~Detecting
  /\ detecting' = [index |-> 1, loops |-> IF Returned THEN detecting.returned ELSE <<>>,
                   visitedEdges |-> {}, attempt |-> NoAttempt, previous |-> LastCall]

\* detectClosedLoops up to its forEach: loops = [], visitedEdges = new Set(),
\* index the position of the forEach in this.edges.
detectStart ==
  /\ ~Detecting
  /\ detecting' = [index |-> 1, loops |-> <<>>, visitedEdges |-> {}, attempt |-> NoAttempt,
                   previous |-> LastCall]

\* The head of the forEach callback: an edge already visited is passed over,
\* for any other findLoop starts (its locals up to the while loop).
forEachEdge ==
  /\ "index" \in DOMAIN detecting
  /\ detecting.attempt = NoAttempt
  /\ detecting.index <= Len(edges)
  /\ LET startEdge == edges[detecting.index]
     IN detecting' =
          IF startEdge.id \in detecting.visitedEdges
          THEN [detecting EXCEPT !.index = @ + 1]
          ELSE [detecting EXCEPT !.attempt =
                  [loop |-> <<startEdge.id>>, currentVertex |-> startEdge.v2,
                   targetVertex |-> startEdge.v1, iterationsLeft |-> maxIterations]]

\* The rest of the forEach callback once findLoop has returned loop (null is
\* the empty sequence).
AfterFindLoop(loop) ==
  IF loop # <<>> /\ Len(loop) >= 3
  THEN [detecting EXCEPT !.index = @ + 1, !.loops = Append(@, loop),
                         !.visitedEdges = @ \cup Range(loop), !.attempt = NoAttempt]
  ELSE [detecting EXCEPT !.index = @ + 1, !.attempt = NoAttempt]

\* One test of the while condition of findLoop and, when it holds, one pass
\* through the body.
AfterIteration ==
  LET a == detecting.attempt
      connectedEdges == adjacencyMap(a.currentVertex)
      nextEdge == FindAt(connectedEdges,
                         {i \in 1..Len(connectedEdges) :
                            /\ connectedEdges[i].id \notin Range(a.loop)
                            /\ connectedEdges[i].id \notin detecting.visitedEdges})
  IN IF a.iterationsLeft <= 0 THEN AfterFindLoop(<<>>)
     ELSE IF nextEdge = Undefined THEN AfterFindLoop(<<>>)
     ELSE LET newLoop == Append(a.loop, nextEdge.id)
              newVertex == OtherEndpoint(nextEdge, a.currentVertex)
          IN IF newVertex = a.targetVertex THEN AfterFindLoop(newLoop)
             ELSE [detecting EXCEPT !.attempt =
                     [loop |-> newLoop, currentVertex |-> newVertex,
                      targetVertex |-> a.targetVertex,
                      iterationsLeft |-> a.iterationsLeft - 1]]

whileIteration ==
  /\ "index" \in DOMAIN detecting
  /\ detecting.attempt # NoAttempt
  /\ detecting' = AfterIteration

\* return loops
detectReturn ==
  /\ "index" \in DOMAIN detecting
  /\ detecting.attempt = NoAttempt
  /\ detecting.index > Len(edges)
  /\ detecting' = [returned |-> detecting.loops, edges |-> edges,
                   previous |-> detecting.previous]

\* The forEach of getLoopVertices over the edges of the loop, from position i on:
\* the ids of the vertices it looks up.
RECURSIVE LoopVertexIdsFrom(_, _, _)
LoopVertexIdsFrom(edgeIds, i, currentVertex) ==
  IF i > Len(edgeIds) THEN <<>>
  ELSE LET nextVertex == OtherEndpoint(getEdge(edgeIds[i]), currentVertex)
       IN <<nextVertex>> \o LoopVertexIdsFrom(edgeIds, i + 1, nextVertex)

\* As getLoopVertexIds, without the final vertices.pop().
getLoopVertexIds_NoPop(edgeIds) ==
  IF Len(edgeIds) = 0 THEN <<>>
  ELSE LET first == getEdge(edgeIds[1]).v1
       IN <<first>> \o LoopVertexIdsFrom(edgeIds, 1, first)

\* The ids getLoopVertices looks up, after its final vertices.pop().
getLoopVertexIds(edgeIds) ==
  IF Len(edgeIds) = 0 THEN <<>>
  ELSE LET first == getEdge(edgeIds[1]).v1
           all == <<first>> \o LoopVertexIdsFrom(edgeIds, 1, first)
       IN SubSeq(all, 1, Len(all) - 1)

getLoopVertices(edgeIds) ==
  LET ids == getLoopVertexIds(edgeIds)
  IN [i \in 1..Len(ids) |-> getVertex(ids[i])]

(***************************************************************************)
(* Graph vocabulary of the properties, stated on the edge list alone.      *)
(***************************************************************************)
EdgeIdx == 1..Len(edges)

EdgeIds == {edges[i].id : i \in EdgeIdx}

VertexIds == {vertices[i].id : i \in 1..Len(vertices)}

Ends(i) == {edges[i].v1, edges[i].v2}

EndsOf(E) == UNION {Ends(i) : i \in E}

\* Number of edge ends of the edges E at vertex id v (a self-loop counts twice).
EndCountIn(E, v) ==
  Cardinality({i \in E : edges[i].v1 = v}) + Cardinality({i \in E : edges[i].v2 = v})

EndCount(v) == EndCountIn(EdgeIdx, v)

\* The vertex ids connected to S through edges of E.
RECURSIVE ReachVia(_, _)
ReachVia(E, S) ==
  LET T == S \cup {w \in EndsOf(E) : \E i \in E : w \in Ends(i) /\ Ends(i) \cap S # {}}
  IN IF T = S THEN S ELSE ReachVia(E, T)

\* The edges E form one simple cycle of at least 3 edges.
IsSimpleCycleSet(E) ==
  /\ Cardinality(E) >= 3
  /\ \A i \in E : edges[i].v1 # edges[i].v2
  /\ \A v \in EndsOf(E) : EndCountIn(E, v) = 2
  /\ \A i \in E : ReachVia(E, {edges[i].v1}) = EndsOf(E)

\* Edge i lies on some cycle of the sketch.
OnCycle(i) ==
  \/ edges[i].v1 = edges[i].v2
  \/ edges[i].v2 \in ReachVia(EdgeIdx \ {i}, {edges[i].v1})

IdsOf(E) == {edges[i].id : i \in E}

Distinct(s) == \A i, j \in 1..Len(s) : i # j => s[i] # s[j]

\* Some edge of the sketch joins vertex ids a and b.
Joined(a, b) == \E i \in EdgeIdx : Ends(i) = {a, b}

(***************************************************************************)
(* C1: a sketch that is exactly one simple cycle yields exactly one loop.  *)
(***************************************************************************)
\* The whole sketch is one simple cycle: every endpoint is a vertex of the
\* sketch and every vertex has exactly two incident edges.
SketchIsOneCycle ==
  /\ IsSimpleCycleSet(EdgeIdx)
  /\ EndsOf(EdgeIdx) = VertexIds

\* C1: when the sketch is exactly one simple cycle of n edges, in any creation
\* order and orientation, detectClosedLoops returns exactly one loop, it holds
\* each of the n edge ids exactly once, and getLoopVertices on it returns the n
\* vertices of the sketch, each once, consecutive ones (cyclically) joined by
\* an edge.
C1_OneCycleOneLoop ==
  SketchIsOneCycle =>
    LET loops == detectClosedLoops
        n == Len(edges)
    IN /\ Len(loops) = 1
       /\ Len(loops[1]) = n
       /\ Range(loops[1]) = EdgeIds
       /\ LET vs == getLoopVertices(loops[1])
          IN /\ Len(vs) = n
             /\ Range(vs) = Range(vertices)
             /\ Distinct(vs)
             /\ \A k \in 1..n : Joined(vs[k].id, vs[(k % n) + 1].id)

\* A box whose edges were created out of cyclic order and with an edge entered
\* against its v1 -> v2 direction, on which a loop was detected.
C1_Witness ==
  /\ SketchIsOneCycle
  /\ Len(edges) = 4
  /\ Ends(1) \cap Ends(2) = {}
  /\ \E i \in EdgeIdx : edges[i].v1 > edges[i].v2
  /\ Len(detectClosedLoops) = 1

(***************************************************************************)
(* C2: stray geometry beside a cycle.                                      *)
(***************************************************************************)
\* E is a simple cycle of the sketch and every other edge lies on no cycle.
CycleWithStrays(E) ==
  /\ IsSimpleCycleSet(E)
  /\ \A i \in EdgeIdx \ E : ~OnCycle(i)

LoopFound(E) ==
  \E k \in 1..Len(detectClosedLoops) :
    /\ Range(detectClosedLoops[k]) = IdsOf(E)
    /\ Len(detectClosedLoops[k]) = Cardinality(E)

\* C2 as claimed, on the sketches whose edges all join existing vertices:
\* whenever the edges contain a simple cycle and every other edge is stray,
\* detectClosedLoops returns a loop of exactly the cycle's edges.
C2_Original ==
  EndsOf(EdgeIdx) \subseteq VertexIds =>
    \A E \in SUBSET EdgeIdx : CycleWithStrays(E) => LoopFound(E)

\* C2 amended: the same, for stray edges that touch no vertex of the cycle.
C2_StraysApartFromCycle ==
  \A E \in SUBSET EdgeIdx :
    (CycleWithStrays(E) /\ EndsOf(EdgeIdx \ E) \cap EndsOf(E) = {}) => LoopFound(E)

\* A triangle found although a stray edge was created before its edges.
C2_Witness ==
  \E E \in SUBSET EdgeIdx :
    /\ CycleWithStrays(E)
    /\ EdgeIdx \ E # {}
    /\ 1 \notin E
    /\ EndsOf(E) \subseteq VertexIds
    /\ EndsOf(EdgeIdx \ E) \cap EndsOf(E) = {}
    /\ LoopFound(E)

(***************************************************************************)
(* C3: edges whose endpoints do not exist.                                 *)
(***************************************************************************)
Dangling(e) == getVertex(e.v1) = Undefined \/ getVertex(e.v2) = Undefined

\* C3: no loop returned by detectClosedLoops contains an edge with a missing
\* endpoint.
C3_NoDanglingEdgeInLoop ==
  \A k \in 1..Len(detectClosedLoops) :
    \A id \in Range(detectClosedLoops[k]) : ~Dangling(getEdge(id))

(***************************************************************************)
(* C4: the vertices of a returned loop.                                    *)
(***************************************************************************)
\* C4 as claimed, on the sketches whose edges all join existing vertices: for
\* every returned loop getLoopVertices has len(loop) entries and they are
\* pairwise distinct.
C4_Original ==
  EndsOf(EdgeIdx) \subseteq VertexIds =>
    \A k \in 1..Len(detectClosedLoops) :
      LET loop == detectClosedLoops[k]
      IN /\ Len(getLoopVertices(loop)) = Len(loop)
         /\ Distinct(getLoopVertices(loop))

\* The entries of vs that are vertices (not undefined) are pairwise distinct.
DistinctFound(vs) ==
  \A i, j \in 1..Len(vs) : (i # j /\ vs[i] # Undefined) => vs[i] # vs[j]

\* C4 amended: for every returned loop getLoopVertices has len(loop) entries;
\* when every vertex on the loop has at most two incident edge ends, the loop
\* passes through no vertex id twice and the vertices found are distinct.
C4_SimpleWhenUnbranched ==
  \A k \in 1..Len(detectClosedLoops) :
    LET loop == detectClosedLoops[k]
    IN /\ Len(getLoopVertices(loop)) = Len(loop)
       /\ (\A v \in Range(getLoopVertexIds(loop)) : EndCount(v) <= 2) =>
            /\ Distinct(getLoopVertexIds(loop))
            /\ DistinctFound(getLoopVertices(loop))

\* A loop of unbranched vertices returned from a sketch that branches elsewhere.
C4_Witness ==
  /\ Len(detectClosedLoops) >= 1
  /\ \A v \in Range(getLoopVertexIds(detectClosedLoops[1])) : EndCount(v) <= 2
  /\ \A v \in Range(getLoopVertexIds(detectClosedLoops[1])) : v \in VertexIds
  /\ Len(edges) > Len(detectClosedLoops[1])

(***************************************************************************)
(* FaceSelector: geometry.  Positions are integer triples in units of      *)
(* 1e-7 world units, so that the 1e-4 vertex tolerance and the 1e-6 step   *)
(* of toFixed(6) are both whole numbers of units.                          *)
(***************************************************************************)
Meshes == 1..NumMeshes

\* The corners of a square of side 0.0071 in the plane z = 0.
PA == <<0, 0, 0>>

PB == <<71000, 0, 0>>

PC == <<71000, 71000, 0>>

PD == <<0, 71000, 0>>

\* Above PA: PA-PB-PE is a wall at 90 degrees to the square.
PE == <<0, 0, 71000>>

\* Raised by 0.0001 beyond the edges PA-PB and PB-PC: triangles to PF and PG
\* are tilted by atan(1/71), about 0.807 degrees, against the square.
PF == <<0, -71000, 1000>>

PG == <<142000, 0, 1000>>

\* In the plane of the square, beyond PC.
PH == <<142000, 71000, 0>>

PI == <<142000, 142000, 0>>

\* PA and PC as an unwelded mesh may repeat them: 0.0000004 off, which
\* toFixed(6) prints as PA and PC.
PAOff == <<4, 4, 0>>

PCOff == <<71004, 71004, 0>>

TriQ1 == <<PA, PB, PC>>

TriQ2 == <<PA, PC, PD>>

\* TriQ2 with its vertices rotated, and with the opposite winding.
TriQ2Rotated == <<PC, PD, PA>>

TriQ2Flipped == <<PD, PC, PA>>

\* TriQ2 on the repeated corners.
TriQ2Off == <<PAOff, PCOff, PD>>

TriWall == <<PA, PB, PE>>

TriTiltB == <<PA, PB, PF>>

TriTiltC == <<PB, PC, PG>>

\* Two coincident vertices: zero area, zero normal.
TriDegenerate == <<PA, PA, PB>>

\* Coplanar with the square, sharing only the vertex PC with it.
TriFar == <<PC, PH, PI>>

Triangles ==
  {TriQ1, TriQ2, TriQ2Rotated, TriQ2Flipped, TriQ2Off, TriWall, TriTiltB,
   TriTiltC, TriDegenerate, TriFar}

\* Every triangle soup of up to n triangles.
RECURSIVE SoupsUpTo(_)
SoupsUpTo(n) ==
  IF n = 0 THEN {<<>>}
  ELSE LET shorter == SoupsUpTo(n - 1)
       IN shorter \cup {Append(g, t) : g \in shorter, t \in Triangles}

Geometries == SoupsUpTo(MaxTriangles)

\* position.count / 3
faceCount(g) == Len(g)

\* getFaceVertices(faceIndex): faceIndex counts from 0.
getFaceVertices(g, faceIndex) == g[faceIndex + 1]

Abs(x) == IF x < 0 THEN -x ELSE x

RECURSIVE Gcd(_, _)
Gcd(a, b) == IF b = 0 THEN a ELSE Gcd(b, a % b)

VSub(p, q) == <<p[1] - q[1], p[2] - q[2], p[3] - q[3]>>

VDot(a, b) == a[1] * b[1] + a[2] * b[2] + a[3] * b[3]

VCross(a, b) ==
  <<a[2] * b[3] - a[3] * b[2], a[3] * b[1] - a[1] * b[3], a[1] * b[2] - a[2] * b[1]>>

\* The shortest integer vector of the same direction (the zero vector stays).
Direction(a) ==
  LET d == Gcd(Gcd(Abs(a[1]), Abs(a[2])), Abs(a[3]))
  IN IF d = 0 THEN a ELSE <<a[1] \div d, a[2] \div d, a[3] \div d>>

\* getFaceNormal(faceIndex): crossVectors(edge1, edge2).normalize(), kept as an
\* integer vector of the same direction; normalize() leaves a zero cross
\* product zero.
getFaceNormal(g, faceIndex) ==
  LET t == g[faceIndex + 1]
      edge1 == Direction(VSub(t[2], t[1]))
      edge2 == Direction(VSub(t[3], t[1]))
  IN Direction(VCross(edge1, edge2))

\* p / q < r / t for naturals p, r and positive q, t, by continued fractions
\* (no product is formed).
RECURSIVE FracLess(_, _, _, _)
FracLess(p, q, r, t) ==
  IF p \div q # r \div t THEN p \div q < r \div t
  ELSE IF r % t = 0 THEN FALSE
  ELSE IF p % q = 0 THEN TRUE
  ELSE FracLess(t, r % t, q, p % q)

\* ANGLE_THRESHOLD = 0.9999 as AngleThresholdNum / AngleThresholdDen.
AngleThresholdNum == 9999

AngleThresholdDen == 10000

\* As Coplanar, without Math.abs: normal.dot(otherNormal) > ANGLE_THRESHOLD.
Coplanar_NoAbs(normal, otherNormal) ==
  LET d == VDot(normal, otherNormal)
      a == VDot(normal, normal)
      b == VDot(otherNormal, otherNormal)
  IN /\ a > 0
     /\ b > 0
     /\ d > 0
     /\ FracLess(AngleThresholdNum * AngleThresholdNum,
                 AngleThresholdDen * AngleThresholdDen, d * d, a * b)

\* Math.abs(normal.dot(otherNormal)) > ANGLE_THRESHOLD on the unit normals:
\* dot^2 / (|n1|^2 |n2|^2) > ANGLE_THRESHOLD^2; a zero normal has dot 0.
Coplanar(normal, otherNormal) ==
  LET d == VDot(normal, otherNormal)
      a == VDot(normal, normal)
      b == VDot(otherNormal, otherNormal)
  IN /\ a > 0
     /\ b > 0
     /\ FracLess(AngleThresholdNum * AngleThresholdNum,
                 AngleThresholdDen * AngleThresholdDen, d * d, a * b)

\* VERTEX_THRESHOLD = 0.0001, in units of 1e-7.
VERTEX_THRESHOLD == 1000

\* v1.distanceTo(v2) < VERTEX_THRESHOLD
Near(v1, v2) ==
  LET d == VSub(v1, v2)
  IN /\ Abs(d[1]) < VERTEX_THRESHOLD
     /\ Abs(d[2]) < VERTEX_THRESHOLD
     /\ Abs(d[3]) < VERTEX_THRESHOLD
     /\ VDot(d, d) < VERTEX_THRESHOLD * VERTEX_THRESHOLD

\* The vertices of face1Verts that are near some vertex of face2Verts.
sharedCount(face1Verts, face2Verts) ==
  Cardinality({i \in 1..3 : \E j \in 1..3 : Near(face1Verts[i], face2Verts[j])})

\* As facesShareEdge, satisfied by a single shared vertex.
facesShareEdge_OneVertex(face1Verts, face2Verts) ==
  sharedCount(face1Verts, face2Verts) >= 1

facesShareEdge(face1Verts, face2Verts) ==
  sharedCount(face1Verts, face2Verts) >= 2

(***************************************************************************)
(* FaceSelector.buildFaceGroups: the flood fill.                           *)
(***************************************************************************)
\* As SeedState, without processed.add(faceIndex).
SeedState_NotProcessed(faceIndex, processed) ==
  [faceIndices |-> <<faceIndex>>, queue |-> <<faceIndex>>, processed |-> processed]

\* A new group and its queue, seeded with faceIndex.
SeedState(faceIndex, processed) ==
  [faceIndices |-> <<faceIndex>>, queue |-> <<faceIndex>>,
   processed |-> processed \cup {faceIndex}]

\* The for loop over otherFace, from otherFace on.
RECURSIVE ScanOthers(_, _, _, _, _)
ScanOthers(g, normal, currentFace, otherFace, st) ==
  IF otherFace >= faceCount(g) THEN st
  ELSE IF otherFace \in st.processed
       THEN ScanOthers(g, normal, currentFace, otherFace + 1, st)
  ELSE IF /\ Coplanar(normal, getFaceNormal(g, otherFace))
          /\ facesShareEdge(getFaceVertices(g, currentFace), getFaceVertices(g, otherFace))
       THEN ScanOthers(g, normal, currentFace, otherFace + 1,
                       [faceIndices |-> Append(st.faceIndices, otherFace),
                        queue |-> Append(st.queue, otherFace),
                        processed |-> st.processed \cup {otherFace}])
  ELSE ScanOthers(g, normal, currentFace, otherFace + 1, st)

\* while (queue.length > 0)
RECURSIVE Flood(_, _, _)
Flood(g, normal, st) ==
  IF st.queue = <<>> THEN st
  ELSE Flood(g, normal,
             ScanOthers(g, normal, Head(st.queue), 0,
                        [st EXCEPT !.queue = Tail(st.queue)]))

\* The for loop over faceIndex, from faceIndex on.
RECURSIVE GroupFrom(_, _, _, _)
GroupFrom(g, faceIndex, groups, processed) ==
  IF faceIndex >= faceCount(g) THEN groups
  ELSE IF faceIndex \in processed THEN GroupFrom(g, faceIndex + 1, groups, processed)
  ELSE LET st == Flood(g, getFaceNormal(g, faceIndex), SeedState(faceIndex, processed))
       IN GroupFrom(g, faceIndex + 1,
                    Append(groups, [faceIndices |-> st.faceIndices]), st.processed)

\* The reverse lookup: every faceIndex of every group is set to the index of
\* its group, counted from 0; a later set() overwrites an earlier one.
faceToGroupOf(groups) ==
  LET faces == UNION {Range(groups[k].faceIndices) : k \in 1..Len(groups)}
  IN [f \in faces |->
        (CHOOSE k \in 1..Len(groups) :
           /\ f \in Range(groups[k].faceIndices)
           /\ \A k2 \in 1..Len(groups) :
                f \in Range(groups[k2].faceIndices) => k2 <= k) - 1]

\* The result of buildFaceGroups on a cache miss.
computeFaceGroups(g) ==
  LET groups == GroupFrom(g, 0, <<>>, {})
  IN [groups |-> groups, faceToGroup |-> faceToGroupOf(groups)]

NoEntry == [noEntry |-> TRUE]

NoCall == [noCall |-> TRUE]

NoHighlight == [noHighlight |-> TRUE]

\* As cacheAfterBuild, storing the result under the uuid of another mesh.
cacheAfterBuild_WrongKey(mesh, result) ==
  [faceGroupsCache EXCEPT ![(mesh % NumMeshes) + 1] = result]

\* this.faceGroupsCache.set(mesh.uuid, result)
cacheAfterBuild(mesh, result) ==
  [faceGroupsCache EXCEPT ![mesh] = result]

\* What buildFaceGroups(mesh) returns: the cached entry when there is one,
\* else the groups of the mesh's current geometry.
buildResult(mesh) ==
  IF faceGroupsCache[mesh] # NoEntry THEN faceGroupsCache[mesh]
  ELSE computeFaceGroups(geometry[mesh])

buildFaceGroups(mesh) ==
  LET hit == faceGroupsCache[mesh] # NoEntry
      result == buildResult(mesh)
  IN /\ returned' = [mesh |-> mesh, result |-> result, hit |-> hit]
     /\ faceGroupsCache' = IF hit THEN faceGroupsCache ELSE cacheAfterBuild(mesh, result)
     /\ UNCHANGED <<geometry, hoverHighlight>>

(***************************************************************************)
(* FaceSelector.createBodyFaceHighlight: the perimeter of a group.         *)
(***************************************************************************)
\* The number of 1e-6 steps toFixed(6) prints: the magnitude rounded to the
\* nearest step (a step is KeyStep units of 1e-7).
KeyStep == 10

\* x.toFixed(6): the sign is printed for every x < 0, also when the digits
\* round to zero ("-0.000000").
toFixed6(x) == [neg |-> x < 0, steps |-> (Abs(x) + (KeyStep \div 2)) \div KeyStep]

\* vertexKey(v)
vertexKey(v) == <<toFixed6(v[1]), toFixed6(v[2]), toFixed6(v[3])>>

\* String order of two printed coordinates below 1 in magnitude: "-" sorts
\* before the digits, equal signs compare the digits.
CoordLess(c1, c2) ==
  IF c1.neg # c2.neg THEN c1.neg ELSE c1.steps < c2.steps

\* keyA < keyB
KeyLess(keyA, keyB) ==
  \/ CoordLess(keyA[1], keyB[1])
  \/ /\ keyA[1] = keyB[1]
     /\ \/ CoordLess(keyA[2], keyB[2])
        \/ keyA[2] = keyB[2] /\ CoordLess(keyA[3], keyB[3])

\* As edgeKey, without sorting the two vertex keys.
edgeKey_Unsorted(va, vb) == <<vertexKey(va), vertexKey(vb)>>

\* edgeKey: the two vertex keys, the smaller first.
edgeKey(va, vb) ==
  IF KeyLess(vertexKey(va), vertexKey(vb))
  THEN <<vertexKey(va), vertexKey(vb)>>
  ELSE <<vertexKey(vb), vertexKey(va)>>

\* The three edges of a triangle: [v1, v2], [v2, v3], [v3, v1].
triangleEdgeKeys(t) == <<edgeKey(t[1], t[2]), edgeKey(t[2], t[3]), edgeKey(t[3], t[1])>>

\* Every edge key of the group's triangles, in the order edgeMap.set sees them.
RECURSIVE groupEdgeKeys(_, _, _)
groupEdgeKeys(g, faceIndices, i) ==
  IF i > Len(faceIndices) THEN <<>>
  ELSE triangleEdgeKeys(g[faceIndices[i] + 1]) \o groupEdgeKeys(g, faceIndices, i + 1)

\* edgeMap.get(key) once every triangle is counted.
edgeCount(keys, key) == Cardinality({i \in 1..Len(keys) : keys[i] = key})

\* parseFloat of a printed coordinate, in units of 1e-7.
parseCoord(c) == IF c.neg THEN -(c.steps * KeyStep) ELSE c.steps * KeyStep

\* getVertex(key)
keyVertex(key) == <<parseCoord(key[1]), parseCoord(key[2]), parseCoord(key[3])>>

\* edgeMap.forEach: the keys in first-insertion order, those counted once kept.
RECURSIVE perimeterFrom(_, _)
perimeterFrom(keys, i) ==
  IF i > Len(keys) THEN <<>>
  ELSE (IF edgeCount(keys, keys[i]) = 1 /\ \A j \in 1..(i - 1) : keys[j] # keys[i]
        THEN <<<<keyVertex(keys[i][1]), keyVertex(keys[i][2])>>>>
        ELSE <<>>)
       \o perimeterFrom(keys, i + 1)

perimeterEdges(g, group) == perimeterFrom(groupEdgeKeys(g, group.faceIndices, 1), 1)

\* createBodyFaceHighlight(bodyMesh, groupIndex, color); the callers pass a
\* group index taken from faceToGroup.
createBodyFaceHighlight(bodyMesh, groupIndex) ==
  LET hit == faceGroupsCache[bodyMesh] # NoEntry
      faceGroups == buildResult(bodyMesh)
  IN /\ groupIndex < Len(faceGroups.groups)
     /\ returned' = [mesh |-> bodyMesh, result |-> faceGroups, hit |-> hit]
     /\ faceGroupsCache' =
          IF hit THEN faceGroupsCache ELSE cacheAfterBuild(bodyMesh, faceGroups)
     /\ hoverHighlight' =
          [mesh |-> bodyMesh, groupIndex |-> groupIndex,
           edges |-> perimeterEdges(geometry[bodyMesh], faceGroups.groups[groupIndex + 1])]
     /\ UNCHANGED geometry

\* The host replaces the vertex positions of a mesh; the mesh keeps its uuid.
\* Whatever an earlier call returned is no longer the answer of the last step.
replaceGeometry(mesh, g) ==
  /\ g # geometry[mesh]
  /\ geometry' = [geometry EXCEPT ![mesh] = g]
  /\ returned' = NoCall
  /\ UNCHANGED <<faceGroupsCache, hoverHighlight>>

(***************************************************************************)
(* FaceSelector: picking.  A handler's raycast is an input of the handler: *)
(* the nearest triangle under the pointer, or nothing.                     *)
(***************************************************************************)
\* JavaScript's null.
Null == [null |-> TRUE]

\* A mesh and a face index as the fields hold them (never compared with null
\* or undefined as bare numbers).
MeshRef(m) == [uuid |-> m]

IndexRef(i) == [index |-> i]

\* intersects.length === 0
NoHit == [noHit |-> TRUE]

\* face.userData.sketchFace: the last mesh is the selection mesh of a sketch
\* face (createSelectionMeshes), the others are bodies.
sketchFace(m) == m = NumMeshes

\* Camera positions over the square, under it, and on the -y and +y sides of
\* the wall PA-PB-PE.
CameraPositions ==
  {<<35500, 35500, 500000>>, <<35500, 35500, -500000>>,
   <<35500, -500000, 35500>>, <<35500, 500000, 35500>>}

\* intersects[0] for every triangle of every mesh, at one of its corners.
Hits ==
  UNION {UNION {{[object |-> m, faceIndex |-> f, point |-> geometry[m][f + 1][c]] :
                   c \in 1..3} : f \in 0..(faceCount(geometry[m]) - 1)} : m \in Meshes}

\* dotProduct < 0, for worldNormal = the face normal (matrixWorld of a body is
\* the identity) and viewDir = camera.position - intersection.point; the
\* sign does not depend on the length of viewDir.
isBackFacing(hit) ==
  VDot(getFaceNormal(geometry[hit.object], hit.faceIndex), VSub(camera, hit.point)) < 0

\* The raycast found nothing, or a back face of a body.
Ignored(hit) ==
  \/ hit = NoHit
  \/ ~sketchFace(hit.object) /\ isBackFacing(hit)

\* unifiedFaceId: the group of the triangle for a body, the triangle index
\* for a sketch face.
unifiedFaceId(hit) ==
  IF sketchFace(hit.object) THEN IndexRef(hit.faceIndex)
  ELSE IndexRef(buildResult(hit.object).faceToGroup[hit.faceIndex])

\* The cache after buildFaceGroups(face) was called for a body.
cacheAfterQuery(face) ==
  IF sketchFace(face) \/ faceGroupsCache[face] # NoEntry THEN faceGroupsCache
  ELSE cacheAfterBuild(face, buildResult(face))

\* What the last buildFaceGroups call of a handler returned: a handler that
\* calls it more than once ends on a cache hit.
returnedAfterQuery(face, again) ==
  IF sketchFace(face) THEN returned
  ELSE [mesh |-> face, result |-> buildResult(face),
        hit |-> again \/ faceGroupsCache[face] # NoEntry]

\* createHoverHighlight(face, faceIndex)
hoverHighlightOf(face, faceIndex) ==
  IF sketchFace(face) THEN [mesh |-> face, sketchEdges |-> TRUE]
  ELSE [mesh |-> face, groupIndex |-> faceIndex.index,
        edges |-> perimeterEdges(geometry[face],
                                 buildResult(face).groups[faceIndex.index + 1])]

\* createSelectionHighlight(face, faceIndex): the triangles drawn.
selectionHighlightOf(face, faceIndex) ==
  IF sketchFace(face) THEN [mesh |-> face, triangles |-> geometry[face]]
  ELSE LET group == buildResult(face).groups[faceIndex.index + 1]
       IN [mesh |-> face,
           triangles |-> [i \in 1..Len(group.faceIndices) |->
                            geometry[face][group.faceIndices[i] + 1]]]

\* deselectFace()
deselectFace ==
  /\ selectedFace' = Null
  /\ selectedFaceIndex' = IF selectedFace # Null THEN Null ELSE selectedFaceIndex
  /\ selectedFaceGroup' = IF selectedFace # Null THEN Null ELSE selectedFaceGroup
  /\ selectionHighlight' = Null

\* selectFace(face, faceIndex), for a face that is not the selected one.
selectFace(face, faceIndex) ==
  /\ selectedFace' = MeshRef(face)
  /\ selectedFaceIndex' = faceIndex
  /\ selectedFaceGroup' =
       IF sketchFace(face) THEN Null
       ELSE buildResult(face).groups[faceIndex.index + 1]
  /\ selectionHighlight' = selectionHighlightOf(face, faceIndex)

\* onMouseMove(event)
onMouseMove(hit) ==
  /\ IF Ignored(hit)
     THEN /\ hoveredFace' = Null
          /\ hoverHighlight' = IF hoveredFace # Null THEN NoHighlight ELSE hoverHighlight
          /\ UNCHANGED <<hoveredFaceIndex, faceGroupsCache, returned>>
     ELSE LET changed == \/ hoveredFace # MeshRef(hit.object)
                         \/ hoveredFaceIndex # unifiedFaceId(hit)
          IN /\ faceGroupsCache' = cacheAfterQuery(hit.object)
             /\ returned' = returnedAfterQuery(hit.object, changed)
             /\ IF changed
                THEN /\ hoveredFace' = MeshRef(hit.object)
                     /\ hoveredFaceIndex' = unifiedFaceId(hit)
                     /\ hoverHighlight' = hoverHighlightOf(hit.object, unifiedFaceId(hit))
                ELSE UNCHANGED <<hoveredFace, hoveredFaceIndex, hoverHighlight>>
  /\ UNCHANGED <<geometry, camera, selectedFace, selectedFaceIndex, selectedFaceGroup,
                 selectionHighlight, contextMenu>>

\* onClick(event), and the document's click listener that showContextMenu
\* registers (it closes the menu).  The click selects the hovered face as the
\* last mouse move left it; no raycast is made.
onClick(button) ==
  /\ IF button # 0
     THEN UNCHANGED <<selectedFace, selectedFaceIndex, selectedFaceGroup,
                      selectionHighlight, faceGroupsCache, returned>>
     ELSE IF hoveredFace # Null
     THEN IF selectedFace = hoveredFace /\ selectedFaceIndex = hoveredFaceIndex
          THEN UNCHANGED <<selectedFace, selectedFaceIndex, selectedFaceGroup,
                           selectionHighlight, faceGroupsCache, returned>>
          ELSE /\ selectFace(hoveredFace.uuid, hoveredFaceIndex)
               /\ faceGroupsCache' = cacheAfterQuery(hoveredFace.uuid)
               /\ returned' = returnedAfterQuery(hoveredFace.uuid, TRUE)
     ELSE /\ deselectFace
          /\ UNCHANGED <<faceGroupsCache, returned>>
  /\ contextMenu' = Null
  /\ UNCHANGED <<geometry, camera, hoveredFace, hoveredFaceIndex, hoverHighlight>>

\* onContextMenu(event)
onContextMenu(hit) ==
  /\ IF Ignored(hit)
     THEN /\ deselectFace
          /\ contextMenu' = Null
          /\ UNCHANGED <<faceGroupsCache, returned>>
     ELSE LET changed == \/ selectedFace # MeshRef(hit.object)
                         \/ selectedFaceIndex # unifiedFaceId(hit)
          IN /\ faceGroupsCache' = cacheAfterQuery(hit.object)
             /\ returned' = returnedAfterQuery(hit.object, changed)
             /\ IF changed
                THEN selectFace(hit.object, unifiedFaceId(hit))
                ELSE UNCHANGED <<selectedFace, selectedFaceIndex, selectedFaceGroup,
                                 selectionHighlight>>
             /\ contextMenu' = [target |-> hit.object]
  /\ UNCHANGED <<geometry, camera, hoveredFace, hoveredFaceIndex, hoverHighlight>>

\* The camera moves (orbit, view cube); FaceSelector is not told.
cameraChange(position) ==
  /\ position # camera
  /\ camera' = position
  /\ UNCHANGED <<faceVars, hoveredFace, hoveredFaceIndex, selectedFace, selectedFaceIndex,
                 selectedFaceGroup, selectionHighlight, contextMenu>>

(***************************************************************************)
(* Plane (src/plane.js). A Vector3 is an integer triple in units of        *)
(* 1 / PlaneScale, which keeps the unit vectors of the model exact; the    *)
(* rotation quaternion of a plane is not part of the model.                *)
(***************************************************************************)
PlaneScale == 65

\* new THREE.Vector3(x, y, z)
Vector3(x, y, z) == <<x * PlaneScale, y * PlaneScale, z * PlaneScale>>

RECURSIVE SqrtBetween(_, _, _)
SqrtBetween(n, lo, hi) ==
  IF lo >= hi THEN lo
  ELSE LET mid == (lo + hi + 1) \div 2
       IN IF mid * mid <= n THEN SqrtBetween(n, mid, hi)
          ELSE SqrtBetween(n, lo, mid - 1)

\* Math.sqrt, on the squares the model meets.
Sqrt(n) == SqrtBetween(n, 0, IF n < 46340 THEN n ELSE 46340)

\* Vector3.normalize: divideScalar(length() || 1), which leaves the zero
\* vector zero.
normalize(a) ==
  LET d == Direction(a)
      length == Sqrt(VDot(d, d))
  IN IF length = 0 THEN <<0, 0, 0>>
     ELSE <<(d[1] * PlaneScale) \div length, (d[2] * PlaneScale) \div length,
            (d[3] * PlaneScale) \div length>>

\* As calculateBasisVectors, with the helper vector (1, 0, 0) whatever the
\* normal is.
calculateBasisVectors_FixedHelper(p) ==
  LET vAxis == normalize(VCross(p.normal, Vector3(1, 0, 0)))
      uAxis == normalize(VCross(vAxis, p.normal))
  IN [origin |-> p.origin, normal |-> p.normal, uAxis |-> uAxis, vAxis |-> vAxis]

calculateBasisVectors(p) ==
  LET tempVector == IF 10 * Abs(p.normal[1]) < 9 * PlaneScale
                    THEN Vector3(1, 0, 0) ELSE Vector3(0, 1, 0)
      vAxis == normalize(VCross(p.normal, tempVector))
      uAxis == normalize(VCross(vAxis, p.normal))
  IN [origin |-> p.origin, normal |-> p.normal, uAxis |-> uAxis, vAxis |-> vAxis]

\* new Plane(origin, normal)
Plane(origin, normal) ==
  calculateBasisVectors([origin |-> origin, normal |-> normalize(normal)])

fromNormal(normal, origin) == Plane(origin, normal)

\* The projection of cameraUp uses the normal as it was passed, not the
\* normalized normal of the plane.
fromCameraView(normal, cameraUp, origin) ==
  LET p == Plane(origin, normal)
      dot == VDot(cameraUp, normal)
      projected == <<cameraUp[1] * PlaneScale * PlaneScale - dot * normal[1],
                     cameraUp[2] * PlaneScale * PlaneScale - dot * normal[2],
                     cameraUp[3] * PlaneScale * PlaneScale - dot * normal[3]>>
      vAxis == normalize(projected)
      uAxis == normalize(VCross(vAxis, normal))
  IN [p EXCEPT !.uAxis = uAxis, !.vAxis = vAxis]

XY(origin) == Plane(origin, Vector3(0, 1, 0))

XZ(origin) == Plane(origin, Vector3(0, 0, 1))

YZ(origin) == Plane(origin, Vector3(1, 0, 0))

clone(p) == Plane(p.origin, p.normal)

PlaneToJSON(p) ==
  [origin |-> [x |-> p.origin[1], y |-> p.origin[2], z |-> p.origin[3]],
   normal |-> [x |-> p.normal[1], y |-> p.normal[2], z |-> p.normal[3]]]

PlaneFromJSON(data) ==
  Plane(<<data.origin.x, data.origin.y, data.origin.z>>,
        <<data.normal.x, data.normal.y, data.normal.z>>)

\* toWorld(u, v) for integer u and v.
toWorld(p, u, v) ==
  <<p.origin[1] + u * p.uAxis[1] + v * p.vAxis[1],
    p.origin[2] + u * p.uAxis[2] + v * p.vAxis[2],
    p.origin[3] + u * p.uAxis[3] + v * p.vAxis[3]>>

\* The number n / PlaneScale^2 in lowest terms, as <<numerator, denominator>>.
Number(n) ==
  LET g == Gcd(Abs(n), PlaneScale * PlaneScale)
  IN <<n \div g, (PlaneScale * PlaneScale) \div g>>

\* As toPlane, without subtracting the origin.
toPlane_NoOrigin(p, worldPos) ==
  [u |-> Number(VDot(worldPos, p.uAxis)), v |-> Number(VDot(worldPos, p.vAxis))]

toPlane(p, worldPos) ==
  LET relative == VSub(worldPos, p.origin)
  IN [u |-> Number(VDot(relative, p.uAxis)), v |-> Number(VDot(relative, p.vAxis))]

\* The object is a Plane with its basis vectors, not a plain {origin, normal}
\* object; matrix.makeBasis(plane.uAxis, plane.vAxis, plane.normal) and
\* toWorld read the components of the axes and throw without them.
HasAxes(p) == {"uAxis", "vAxis"} \subseteq DOMAIN p

\* Plane origins, and normals: the axes, a normal that is not of unit length,
\* and unit normals with |x| below and above 0.9.
Origins == {Vector3(0, 0, 0), Vector3(1, -2, 3)}

Normals ==
  {Vector3(0, 1, 0), Vector3(0, 0, 1), Vector3(1, 0, 0), Vector3(0, 0, -2),
   Vector3(-3, 0, 0), <<39, 52, 0>>, <<60, 25, 0>>, <<0, -25, 60>>}

\* fromCameraView(normal, cameraUp): front and side views, the top view with
\* the camera's up along the normal, views whose up is tilted against, at
\* right angles to and along a normal of length 2, and a unit normal off the
\* axes.
CameraViews ==
  {<<Vector3(0, 0, 1), Vector3(0, 1, 0)>>,
   <<Vector3(1, 0, 0), Vector3(0, 1, 0)>>,
   <<Vector3(0, 1, 0), Vector3(0, 0, -1)>>,
   <<Vector3(0, 1, 0), Vector3(0, 1, 0)>>,
   <<Vector3(0, 0, 2), Vector3(0, 4, 1)>>,
   <<Vector3(0, 0, 2), Vector3(0, 1, 0)>>,
   <<Vector3(0, 0, 2), Vector3(0, 0, 1)>>,
   <<<<39, 52, 0>>, Vector3(0, 0, 1)>>}

MaxCoordinate == 1

Coordinates == (0 - MaxCoordinate)..MaxCoordinate

planeUnchanged ==
  UNCHANGED <<sketchVars, faceVars, selectVars, constraints, parameters, extrudeReturned,
              detectVars, editorVars>>

ConstructStep ==
  /\ \E origin \in Origins, normal \in Normals : plane' = Plane(origin, normal)
  /\ UNCHANGED roundTrip
  /\ planeUnchanged

FromNormalStep ==
  /\ \E origin \in Origins, normal \in Normals : plane' = fromNormal(normal, origin)
  /\ UNCHANGED roundTrip
  /\ planeUnchanged

FromCameraViewStep ==
  /\ \E origin \in Origins, view \in CameraViews :
       plane' = fromCameraView(view[1], view[2], origin)
  /\ UNCHANGED roundTrip
  /\ planeUnchanged

XYStep ==
  /\ \E origin \in Origins : plane' = XY(origin)
  /\ UNCHANGED roundTrip
  /\ planeUnchanged

XZStep ==
  /\ \E origin \in Origins : plane' = XZ(origin)
  /\ UNCHANGED roundTrip
  /\ planeUnchanged

YZStep ==
  /\ \E origin \in Origins : plane' = YZ(origin)
  /\ UNCHANGED roundTrip
  /\ planeUnchanged

CloneStep ==
  /\ plane' = clone(plane)
  /\ UNCHANGED roundTrip
  /\ planeUnchanged

PlaneJSONStep ==
  /\ plane' = PlaneFromJSON(PlaneToJSON(plane))
  /\ UNCHANGED roundTrip
  /\ planeUnchanged

\* toWorld(u, v) on the plane and toPlane of the point it returns.
RoundTripStep ==
  /\ \E u \in Coordinates, v \in Coordinates :
       roundTrip' = [u |-> u, v |-> v, plane |-> plane,
                     returned |-> toPlane(plane, toWorld(plane, u, v))]
  /\ UNCHANGED plane
  /\ planeUnchanged

PlaneNext ==
  \/ ConstructStep
  \/ FromNormalStep
  \/ FromCameraViewStep
  \/ XYStep
  \/ XZStep
  \/ YZStep
  \/ CloneStep
  \/ PlaneJSONStep
  \/ RoundTripStep

(***************************************************************************)
(* Sketch: saving and loading (toJSON, JSON text, fromJSON).               *)
(***************************************************************************)
\* Sketch.toJSON: the object holds the sketch's own plane, arrays and map.
SketchToJSON ==
  [plane |-> plane, vertices |-> vertices, edges |-> edges,
   constraints |-> constraints, parameters |-> parameters]

\* JSON.parse(JSON.stringify(data)): a Plane is written by its toJSON, as
\* origin and normal only; numbers, arrays and plain objects come back equal.
Serialized(data) ==
  [data EXCEPT !.plane = IF HasAxes(data.plane) THEN PlaneToJSON(data.plane)
                         ELSE data.plane]

\* Math.max(...ids, -1) + 1
NextIdAfter(records) ==
  LET ids == {records[i].id : i \in 1..Len(records)} \cup {-1}
  IN (CHOOSE m \in ids : \A n \in ids : n <= m) + 1

\* data.key || fallback, for a key the data may lack.
FieldOr(data, key, fallback) == IF key \in DOMAIN data THEN data[key] ELSE fallback

\* As SketchFromJSON, leaving the id counters as the constructor set them.
SketchFromJSON_NoCounters(data) ==
  /\ plane' = FieldOr(data, "plane", XY(Vector3(0, 0, 0)))
  /\ vertices' = FieldOr(data, "vertices", <<>>)
  /\ edges' = FieldOr(data, "edges", <<>>)
  /\ constraints' = FieldOr(data, "constraints", <<>>)
  /\ parameters' = FieldOr(data, "parameters", {})
  /\ nextVertexId' = 0
  /\ nextEdgeId' = 0

\* Sketch.fromJSON(data): new Sketch(data.plane) keeps data.plane as it is
\* (Plane.XY() when there is none), then the lists and the counters are set.
SketchFromJSON(data) ==
  /\ plane' = FieldOr(data, "plane", XY(Vector3(0, 0, 0)))
  /\ vertices' = FieldOr(data, "vertices", <<>>)
  /\ edges' = FieldOr(data, "edges", <<>>)
  /\ constraints' = FieldOr(data, "constraints", <<>>)
  /\ parameters' = FieldOr(data, "parameters", {})
  /\ nextVertexId' = NextIdAfter(vertices')
  /\ nextEdgeId' = NextIdAfter(edges')

\* Saved sketches with distinct ids: an empty one, one without lists, one
\* whose ids are neither contiguous nor in order, one without a plane.
SavedSketches ==
  {[plane |-> PlaneToJSON(XY(Vector3(0, 0, 0))), vertices |-> <<>>, edges |-> <<>>,
    constraints |-> <<>>, parameters |-> {}],
   [plane |-> PlaneToJSON(XZ(Vector3(0, 0, 0)))],
   [plane |-> PlaneToJSON(YZ(Vector3(1, -2, 3))),
    vertices |-> <<[id |-> 2, u |-> 0, v |-> 0], [id |-> 1, u |-> 2, v |-> 0]>>,
    edges |-> <<[id |-> 1, v1 |-> 2, v2 |-> 1]>>,
    constraints |-> <<>>, parameters |-> {<<"width", 2>>}],
   [vertices |-> <<[id |-> 0, u |-> 0, v |-> 0]>>, edges |-> <<>>]}

loadUnchanged == UNCHANGED <<faceVars, selectVars, extrudeReturned, roundTrip, detectVars, editorVars>>

FromJSONStep ==
  /\ \E data \in SavedSketches : SketchFromJSON(data)
  /\ loadUnchanged

\* Sketch.fromJSON(JSON.parse(JSON.stringify(sketch))) of the sketch as it is.
SaveLoadStep ==
  /\ SketchFromJSON(Serialized(SketchToJSON))
  /\ loadUnchanged

(***************************************************************************)
(* The consumers of loop detection: Sketch.createSelectionMeshes and       *)
(* Extrude (src/extrude.js).                                               *)
(***************************************************************************)
\* A TypeError thrown out of the call.
Throws == [throws |-> TRUE]

\* vertex.u is read of every entry: an undefined entry throws.
HasUndefined(loopVertices) ==
  \E i \in 1..Len(loopVertices) : loopVertices[i] = Undefined

\* The THREE.Shape drawn through the loop vertices.
ShapeOf(loopVertices) ==
  [i \in 1..Len(loopVertices) |-> <<loopVertices[i].u, loopVertices[i].v>>]

RECURSIVE SelectionMeshesFrom(_, _, _)
SelectionMeshesFrom(loops, loopIndex, group) ==
  IF loopIndex >= Len(loops) THEN [children |-> group]
  ELSE LET loop == loops[loopIndex + 1]
           loopVertices == getLoopVertices(loop)
       IN IF Len(loopVertices) < 3
          THEN SelectionMeshesFrom(loops, loopIndex + 1, group)
          ELSE IF HasUndefined(loopVertices) \/ ~HasAxes(plane) THEN Throws
          ELSE SelectionMeshesFrom(loops, loopIndex + 1,
                 Append(group, [loopIndex |-> loopIndex, edgeIds |-> loop,
                                shape |-> ShapeOf(loopVertices),
                                basis |-> <<plane.uAxis, plane.vAxis, plane.normal>>,
                                position |-> plane.origin]))

createSelectionMeshes == SelectionMeshesFrom(detectClosedLoops, 0, <<>>)

extrudeLoop(loopVertices, distance, direction) ==
  IF HasUndefined(loopVertices) \/ ~HasAxes(plane) THEN Throws
  ELSE [shape |-> ShapeOf(loopVertices), depth |-> distance * direction,
        basis |-> <<plane.uAxis, plane.vAxis, plane.normal>>,
        position |-> plane.origin]

\* As toGeometry, without the test for an empty list of loops: loops[0] is
\* undefined and getLoopVertices reads its length.
toGeometry_NoEmptyCheck(distance, direction) ==
  LET loops == detectClosedLoops
  IN IF Len(loops) = 0 THEN Throws
     ELSE LET loopVertices == getLoopVertices(loops[1])
          IN IF Len(loopVertices) < 3 THEN Null
             ELSE extrudeLoop(loopVertices, distance, direction)

\* As toGeometry, extruding the last loop of the list.
toGeometry_LastLoop(distance, direction) ==
  LET loops == detectClosedLoops
  IN IF Len(loops) = 0 THEN Null
     ELSE LET loopVertices == getLoopVertices(loops[Len(loops)])
          IN IF Len(loopVertices) < 3 THEN Null
             ELSE extrudeLoop(loopVertices, distance, direction)

toGeometry(distance, direction) ==
  LET loops == detectClosedLoops
  IN IF Len(loops) = 0 THEN Null
     ELSE LET loopVertices == getLoopVertices(loops[1])
          IN IF Len(loopVertices) < 3 THEN Null
             ELSE extrudeLoop(loopVertices, distance, direction)

toMesh(distance, direction) ==
  LET extruded == toGeometry(distance, direction)
  IN IF extruded = Throws THEN Throws
     ELSE IF extruded = Null THEN Null
     ELSE [geometry |-> extruded, castShadow |-> TRUE, receiveShadow |-> TRUE]

\* new Extrude(sketch, distance, direction): the default distance, in the
\* direction of the normal or against it.
Directions == {1, -1}

extrudeUnchanged ==
  UNCHANGED <<sketchVars, faceVars, selectVars, plane, constraints, parameters, roundTrip,
              detectVars, editorVars>>

ToGeometryStep ==
  /\ \E direction \in Directions :
       extrudeReturned' = [method |-> "toGeometry", returned |-> toGeometry(1, direction)]
  /\ extrudeUnchanged

ToMeshStep ==
  /\ \E direction \in Directions :
       extrudeReturned' = [method |-> "toMesh", returned |-> toMesh(1, direction)]
  /\ extrudeUnchanged

VAdd(a, b) == <<a[1] + b[1], a[2] + b[2], a[3] + b[3]>>

VScale(a, k) == <<k * a[1], k * a[2], k * a[3]>>

\* The vertices of new THREE.ExtrudeGeometry(shape, {depth}) after
\* applyMatrix4(matrix): every point (x, y) of the shape at z = 0 and at
\* z = depth, taken to position + x * xAxis + y * yAxis + z * zAxis.
appliedVertices(g) ==
  {VAdd(VAdd(g.position, VScale(g.basis[1], g.shape[i][1])),
        VAdd(VScale(g.basis[2], g.shape[i][2]), VScale(g.basis[3], z))) :
     i \in 1..Len(g.shape), z \in {0, g.depth}}

\* new Sketch(plane)
newSketch(p) ==
  /\ plane' = p
  /\ vertices' = <<>>
  /\ edges' = <<>>
  /\ constraints' = <<>>
  /\ parameters' = {}
  /\ nextVertexId' = 0
  /\ nextEdgeId' = 0

\* The planes createSketch hands to new Sketch: a given plane, or the plane
\* of the camera view.
SketchPlanes ==
  {Plane(origin, normal) : origin \in Origins, normal \in Normals}
    \cup {fromCameraView(view[1], view[2], origin) : view \in CameraViews, origin \in Origins}

NewSketchStep ==
  /\ \E p \in SketchPlanes : newSketch(p)
  /\ UNCHANGED <<faceVars, selectVars, extrudeReturned, roundTrip, detectVars, editorVars>>

MaxDistance == 3

\* new Extrude(sketch, distance, direction).toGeometry()
ExtrudeStep ==
  /\ \E distance \in 1..MaxDistance, direction \in Directions :
       extrudeReturned' = [method |-> "toGeometry",
                           returned |-> toGeometry(distance, direction)]
  /\ extrudeUnchanged

(***************************************************************************)
(* SketchEditor (src/unnamed/part_002): the editing session.  A sketch     *)
(* container is its place in kivi.objects.sketches.children; a body is     *)
(* [uuid, visible].  The animation frames that move the camera to the      *)
(* sketch plane and back are not part of the model.                        *)
(***************************************************************************)
SketchRef(sketch) == [container |-> sketch]

\* The constructor, over a scene with no body and no sketch and a camera
\* controller as it is built.
EditorIdle ==
  /\ activeSketch = Null
  /\ isEditing = FALSE
  /\ editorWindow = FALSE
  /\ savedCameraState = Null
  /\ savedBodiesVisibility = Null
  /\ bodies = [visible |-> TRUE, children |-> <<>>]
  /\ sketches = <<>>
  /\ rotationEnabled = TRUE
  /\ uuidsIssued = 0
  /\ bodiesAtOpening = Null

\* saveBodiesVisibility(): the Map, key '_folder' and one key for each child
\* uuid.
saveBodiesVisibility ==
  [folder |-> bodies.visible,
   children |-> {<<bodies.children[i].uuid, bodies.children[i].visible>> :
                   i \in 1..Len(bodies.children)}]

\* hideBodies(): kivi.objects.bodies afterwards.
hideBodies ==
  [visible |-> FALSE,
   children |-> [i \in 1..Len(bodies.children) |->
                   [bodies.children[i] EXCEPT !.visible = FALSE]]]

\* restoreBodiesVisibility(): kivi.objects.bodies afterwards.
\* (savedVisibility !== undefined: the Map has the key child.uuid.)
restoreBodiesVisibility ==
  IF savedBodiesVisibility = Null THEN bodies
  ELSE [visible |-> savedBodiesVisibility.folder,
        children |->
          [i \in 1..Len(bodies.children) |->
             LET child == bodies.children[i]
             IN IF \E e \in savedBodiesVisibility.children : e[1] = child.uuid
                THEN [child EXCEPT !.visible =
                        (CHOOSE e \in savedBodiesVisibility.children :
                           e[1] = child.uuid)[2]]
                ELSE child]]

\* openSketchEditor(sketch), with `containers` the children of the sketches
\* folder at the call.  updateSketchVisualization leaves the container with
\* the one child sketchData.toGeometry() returns.
openSketchEditor_Reentrant(sketch, containers) ==
  /\ activeSketch' = SketchRef(sketch)
  /\ isEditing' = TRUE
  /\ sketches' = [containers EXCEPT ![sketch] =
                    [visible |-> TRUE, children |-> {"sketchGeometry"}]]
  /\ savedCameraState' = [position |-> camera]
  /\ savedBodiesVisibility' = saveBodiesVisibility
  /\ bodies' = hideBodies
  /\ rotationEnabled' = FALSE
  /\ editorWindow' = TRUE
  /\ bodiesAtOpening' = bodies
  /\ UNCHANGED uuidsIssued

openSketchEditor(sketch, containers) ==
  IF isEditing
  THEN /\ sketches' = containers
       /\ UNCHANGED <<activeSketch, isEditing, editorWindow, savedCameraState,
                      savedBodiesVisibility, bodies, rotationEnabled, uuidsIssued,
                      bodiesAtOpening>>
  ELSE /\ activeSketch' = SketchRef(sketch)
       /\ isEditing' = TRUE
       /\ sketches' = [containers EXCEPT ![sketch] =
                         [visible |-> TRUE, children |-> {"sketchGeometry"}]]
       /\ savedCameraState' = [position |-> camera]
       /\ savedBodiesVisibility' = saveBodiesVisibility
       /\ bodies' = hideBodies
       /\ rotationEnabled' = FALSE
       /\ editorWindow' = TRUE
       /\ bodiesAtOpening' = bodies
       /\ UNCHANGED uuidsIssued

\* createSketch(): a new container (a THREE.Group, visible) is added to the
\* sketches folder and openSketchEditor is called with it.
createSketch ==
  /\ Len(sketches) < MaxSketches
  /\ openSketchEditor(Len(sketches) + 1,
                      Append(sketches, [visible |-> TRUE, children |-> {}]))
  /\ UNCHANGED besidesEditor

\* closeSketchEditor(); generateSelectionMeshes puts the child
\* 'selectionMeshes' in place of an older one.
closeSketchEditor ==
  /\ IF ~isEditing
     THEN UNCHANGED editorVars
     ELSE /\ sketches' = [sketches EXCEPT ![activeSketch.container].children =
                            @ \cup {"selectionMeshes"}]
          /\ editorWindow' = FALSE
          /\ bodies' = restoreBodiesVisibility
          /\ savedBodiesVisibility' = Null
          /\ rotationEnabled' = TRUE
          /\ activeSketch' = Null
          /\ isEditing' = FALSE
          /\ UNCHANGED <<savedCameraState, uuidsIssued, bodiesAtOpening>>
  /\ UNCHANGED besidesEditor

\* "Edit Sketch" of the objects browser, or any other call of
\* openSketchEditor with a container of the sketches folder.
OpenSketchEditorStep ==
  /\ \E sketch \in 1..Len(sketches) : openSketchEditor(sketch, sketches)
  /\ UNCHANGED besidesEditor

\* KIVI.objects.bodies.add(mesh): a new mesh is visible.
AddBodyStep ==
  /\ uuidsIssued < MaxBodies
  /\ uuidsIssued' = uuidsIssued + 1
  /\ bodies' = [bodies EXCEPT !.children =
                  Append(@, [uuid |-> uuidsIssued + 1, visible |-> TRUE])]
  /\ UNCHANGED <<activeSketch, isEditing, editorWindow, savedCameraState,
                 savedBodiesVisibility, sketches, rotationEnabled, bodiesAtOpening>>
  /\ UNCHANGED besidesEditor

\* The eye icon of the objects browser, on the bodies folder or on a body:
\* object.visible = !object.visible.
ToggleVisibleStep ==
  /\ \/ bodies' = [bodies EXCEPT !.visible = ~@]
     \/ \E i \in 1..Len(bodies.children) :
          bodies' = [bodies EXCEPT !.children[i].visible = ~@]
  /\ UNCHANGED <<activeSketch, isEditing, editorWindow, savedCameraState,
                 savedBodiesVisibility, sketches, rotationEnabled, uuidsIssued,
                 bodiesAtOpening>>
  /\ UNCHANGED besidesEditor

\* "Delete" of the objects browser on a body: parent.children.splice(i, 1).
DeleteBodyStep ==
  /\ \E i \in 1..Len(bodies.children) :
       bodies' = [bodies EXCEPT !.children =
                    SubSeq(@, 1, i - 1) \o SubSeq(@, i + 1, Len(@))]
  /\ UNCHANGED <<activeSketch, isEditing, editorWindow, savedCameraState,
                 savedBodiesVisibility, sketches, rotationEnabled, uuidsIssued,
                 bodiesAtOpening>>
  /\ UNCHANGED besidesEditor

\* The Sketch constructor's plane (Plane.XY()), constraints and parameters;
\* no Extrude call and no coordinate conversion made yet.
FeatureIdle ==
  /\ plane = XY(Vector3(0, 0, 0))
  /\ constraints = <<>>
  /\ parameters = {}
  /\ extrudeReturned = NoCall
  /\ roundTrip = Null
  /\ detecting = NotDetecting
  /\ EditorIdle

(***************************************************************************)
(* FaceSelector: the operations as state machines.                         *)
(***************************************************************************)
FaceIdle ==
  /\ geometry = [m \in Meshes |-> <<>>]
  /\ faceGroupsCache = [m \in Meshes |-> NoEntry]
  /\ returned = NoCall
  /\ hoverHighlight = NoHighlight

\* The constructor: nothing hovered, nothing selected; the two index fields
\* are not set until a face is hovered or selected.
SelectIdle ==
  /\ camera = <<35500, 35500, 500000>>
  /\ hoveredFace = Null
  /\ hoveredFaceIndex = Undefined
  /\ selectedFace = Null
  /\ selectedFaceIndex = Undefined
  /\ selectedFaceGroup = Null
  /\ selectionHighlight = Null
  /\ contextMenu = Null

\* Grouping and perimeter of one mesh, over every geometry of the bound.
GroupInit ==
  /\ SketchInit
  /\ SelectIdle
  /\ FeatureIdle
  /\ \E g \in Geometries : geometry = [m \in Meshes |-> IF m = 1 THEN g ELSE <<>>]
  /\ faceGroupsCache = [m \in Meshes |-> NoEntry]
  /\ returned = NoCall
  /\ hoverHighlight = NoHighlight

\* The body meshes under the pointer: those that have triangles to hit.
BodyMeshes == {m \in Meshes : faceCount(geometry[m]) > 0}

GroupBuildStep ==
  /\ \E m \in BodyMeshes : buildFaceGroups(m)
  /\ UNCHANGED besidesFace

HighlightStep ==
  /\ \E m \in BodyMeshes, groupIndex \in 0..(MaxTriangles - 1) :
       createBodyFaceHighlight(m, groupIndex)
  /\ UNCHANGED besidesFace

GroupNext == GroupBuildStep \/ HighlightStep

SpecGroup == GroupInit /\ [][GroupNext]_vars

\* PA and PC as the second triangle of an unwelded quad may hold them: 0.00005
\* off along x and y, about 0.00007 away, inside VERTEX_THRESHOLD.
PAApart == <<500, 500, 0>>

PCApart == <<71500, 71500, 0>>

TriQ2Apart == <<PAApart, PCApart, PD>>

\* Grouping and perimeter of one mesh whose triangles may meet along a seam
\* of near, not equal, vertices.
SeamGeometries ==
  UNION {[1..n -> Triangles \cup {TriQ2Apart}] : n \in 0..(MaxTriangles - 1)}

SeamInit ==
  /\ SketchInit
  /\ SelectIdle
  /\ FeatureIdle
  /\ \E g \in SeamGeometries : geometry = [m \in Meshes |-> IF m = 1 THEN g ELSE <<>>]
  /\ faceGroupsCache = [m \in Meshes |-> NoEntry]
  /\ returned = NoCall
  /\ hoverHighlight = NoHighlight

SpecSeam == SeamInit /\ [][GroupNext]_vars

\* The geometries a mesh is given in the cache scenario: nothing, one triangle,
\* the flat quad, the quad folded along PA-PB.
CacheGeometries == {<<>>, <<TriQ1>>, <<TriQ1, TriQ2>>, <<TriQ1, TriWall>>}

CacheInit ==
  /\ SketchInit
  /\ SelectIdle
  /\ FeatureIdle
  /\ geometry \in [Meshes -> CacheGeometries]
  /\ faceGroupsCache = [m \in Meshes |-> NoEntry]
  /\ returned = NoCall
  /\ hoverHighlight = NoHighlight

BuildStep ==
  /\ \E m \in Meshes : buildFaceGroups(m)
  /\ UNCHANGED besidesFace

ReplaceStep ==
  /\ \E m \in Meshes, g \in CacheGeometries : replaceGeometry(m, g)
  /\ UNCHANGED besidesFace

CacheNext == BuildStep \/ ReplaceStep

SpecCache == CacheInit /\ [][CacheNext]_vars

\* Picking: the bodies are a flat quad in either winding or a quad folded
\* along PA-PB; the sketch face is the flat quad.
SelectGeometries == {<<TriQ1, TriQ2>>, <<TriQ1, TriQ2Flipped>>, <<TriQ1, TriWall>>}

SelectInit ==
  /\ SketchInit
  /\ SelectIdle
  /\ FeatureIdle
  /\ \E g \in SelectGeometries :
       geometry = [m \in Meshes |-> IF sketchFace(m) THEN <<TriQ1, TriQ2>>
                                    ELSE IF m = 1 THEN g ELSE <<TriQ1, TriWall>>]
  /\ faceGroupsCache = [m \in Meshes |-> NoEntry]
  /\ returned = NoCall
  /\ hoverHighlight = NoHighlight

MouseMoveStep ==
  /\ \E hit \in Hits \cup {NoHit} : onMouseMove(hit)
  /\ UNCHANGED besidesSelect

ClickStep ==
  /\ \E button \in {0, 1} : onClick(button)
  /\ UNCHANGED besidesSelect

ContextMenuStep ==
  /\ \E hit \in Hits \cup {NoHit} : onContextMenu(hit)
  /\ UNCHANGED besidesSelect

CameraChangeStep ==
  /\ \E position \in CameraPositions : cameraChange(position)
  /\ UNCHANGED besidesSelect

SelectNext == MouseMoveStep \/ ClickStep \/ ContextMenuStep \/ CameraChangeStep

SpecSelect == SelectInit /\ [][SelectNext]_vars

(***************************************************************************)
(* Vocabulary of the face-group properties.                                *)
(***************************************************************************)
\* At least two vertices of triangle t1 lie within the tolerance of a vertex
\* of triangle t2.
SharesEdge(t1, t2) ==
  \E i, j \in 1..3 :
    /\ i # j
    /\ \E a \in 1..3 : Near(t1[i], t2[a])
    /\ \E b \in 1..3 : Near(t1[j], t2[b])

\* The nonzero normals n1 and n2 are exactly parallel (either sign).
ParallelNormals(n1, n2) ==
  /\ n1 # <<0, 0, 0>>
  /\ n2 # <<0, 0, 0>>
  /\ VCross(n1, n2) = <<0, 0, 0>>

\* The nonzero normals n1 and n2 are at 90 degrees.
PerpendicularNormals(n1, n2) ==
  /\ n1 # <<0, 0, 0>>
  /\ n2 # <<0, 0, 0>>
  /\ VDot(n1, n2) = 0

FaceIndicesOf(g) == 0..(faceCount(g) - 1)

\* The geometry the last call was made on, and what it returned.
CalledGeometry == geometry[returned.mesh]

CalledGroups == returned.result.groups

CalledFaceToGroup == returned.result.faceToGroup

\* The seed (first triangle) of the group of face x.
SeedOf(x) == CalledGroups[CalledFaceToGroup[x] + 1].faceIndices[1]

\* The faces of the set S linked to the faces R by shared edges inside S.
RECURSIVE LinkedIn(_, _, _)
LinkedIn(g, S, R) ==
  LET T == R \cup {y \in S : \E x \in R : SharesEdge(g[x + 1], g[y + 1])
                                          \/ SharesEdge(g[y + 1], g[x + 1])}
  IN IF T = R THEN R ELSE LinkedIn(g, S, T)

(***************************************************************************)
(* C5: the cache after a geometry replacement.                             *)
(***************************************************************************)
\* C5: whatever buildFaceGroups returns is the grouping of the geometry the
\* mesh has when it is called.
C5_NeverStale ==
  returned # NoCall => returned.result = computeFaceGroups(CalledGeometry)

(***************************************************************************)
(* C6: the groups are a partition of the triangles.                        *)
(***************************************************************************)
\* C6: every triangle index 0..T-1 appears in exactly one group, exactly once,
\* no group is empty, and faceToGroup maps each index to the group holding it.
C6_Partition ==
  returned # NoCall =>
    /\ \A f \in FaceIndicesOf(CalledGeometry) :
         Cardinality({ki \in (1..Len(CalledGroups)) \X (1..MaxTriangles + 1) :
                        /\ ki[2] <= Len(CalledGroups[ki[1]].faceIndices)
                        /\ CalledGroups[ki[1]].faceIndices[ki[2]] = f}) = 1
    /\ \A k \in 1..Len(CalledGroups) :
         /\ Len(CalledGroups[k].faceIndices) > 0
         /\ Len(CalledGroups[k].faceIndices) <= faceCount(CalledGeometry)
         /\ Range(CalledGroups[k].faceIndices) \subseteq FaceIndicesOf(CalledGeometry)
    /\ DOMAIN CalledFaceToGroup = FaceIndicesOf(CalledGeometry)
    /\ \A f \in FaceIndicesOf(CalledGeometry) :
         /\ CalledFaceToGroup[f] \in 0..(Len(CalledGroups) - 1)
         /\ f \in Range(CalledGroups[CalledFaceToGroup[f] + 1].faceIndices)

\* Three triangles returned as a group of two and a group of one.
C6_Witness ==
  /\ returned # NoCall
  /\ faceCount(CalledGeometry) = 3
  /\ Len(CalledGroups) = 2
  /\ Len(CalledGroups[2].faceIndices) = 2

(***************************************************************************)
(* C7: maximality of the groups.                                           *)
(***************************************************************************)
\* C7 as claimed: no two triangles that share an edge and pass the
\* coplanarity test against each other are in different groups.
C7_Original ==
  returned # NoCall =>
    \A x, y \in FaceIndicesOf(CalledGeometry) :
      (/\ x # y
       /\ SharesEdge(CalledGeometry[x + 1], CalledGeometry[y + 1])
       /\ Coplanar(getFaceNormal(CalledGeometry, x), getFaceNormal(CalledGeometry, y)))
      => CalledFaceToGroup[x] = CalledFaceToGroup[y]

\* C7 amended: a triangle y that shares an edge with a triangle x and passes
\* the coplanarity test against the seed of x's group is in x's group or in
\* one built earlier; two triangles that share an edge and have exactly
\* parallel normals are in one group; two triangles meeting at 90 degrees
\* are in separate groups.
C7_MaximalForSeed ==
  returned # NoCall =>
    \A x, y \in FaceIndicesOf(CalledGeometry) :
      x # y =>
        LET nx == getFaceNormal(CalledGeometry, x)
            ny == getFaceNormal(CalledGeometry, y)
            xy == SharesEdge(CalledGeometry[x + 1], CalledGeometry[y + 1])
            yx == SharesEdge(CalledGeometry[y + 1], CalledGeometry[x + 1])
        IN /\ (xy /\ Coplanar(getFaceNormal(CalledGeometry, SeedOf(x)), ny))
              => CalledFaceToGroup[y] <= CalledFaceToGroup[x]
           /\ (xy /\ yx /\ ParallelNormals(nx, ny))
              => CalledFaceToGroup[x] = CalledFaceToGroup[y]
           /\ PerpendicularNormals(nx, ny)
              => CalledFaceToGroup[x] # CalledFaceToGroup[y]

\* The flat quad, given with opposite windings, in one group and the wall
\* on its edge in another.
C7_Witness ==
  /\ returned # NoCall
  /\ CalledGeometry = <<TriQ1, TriWall, TriQ2Flipped>>
  /\ CalledFaceToGroup[0] = CalledFaceToGroup[2]
  /\ CalledFaceToGroup[0] # CalledFaceToGroup[1]

(***************************************************************************)
(* C8: what holds inside a group.                                          *)
(***************************************************************************)
\* C8 as claimed: any two triangles of a group pass the coplanarity test
\* against each other and are linked by shared edges inside the group.
C8_Original ==
  returned # NoCall =>
    \A k \in 1..Len(CalledGroups) :
      \A x, y \in Range(CalledGroups[k].faceIndices) :
        x # y =>
          /\ Coplanar(getFaceNormal(CalledGeometry, x), getFaceNormal(CalledGeometry, y))
          /\ y \in LinkedIn(CalledGeometry, Range(CalledGroups[k].faceIndices), {x})

\* C8 amended: every triangle of a group passes the coplanarity test against
\* the group's seed (its first triangle), and any two triangles of a group
\* are linked by shared edges inside the group.
C8_SeedCoplanarLinked ==
  returned # NoCall =>
    \A k \in 1..Len(CalledGroups) :
      LET members == Range(CalledGroups[k].faceIndices)
          seedNormal == getFaceNormal(CalledGeometry, CalledGroups[k].faceIndices[1])
      IN /\ \A y \in members \ {CalledGroups[k].faceIndices[1]} :
              Coplanar(seedNormal, getFaceNormal(CalledGeometry, y))
         /\ \A x \in members : LinkedIn(CalledGeometry, members, {x}) = members

\* A group of three triangles, the third reached through the second.
C8_Witness ==
  /\ returned # NoCall
  /\ Len(CalledGroups) = 1
  /\ Len(CalledGroups[1].faceIndices) = 3
  /\ ~SharesEdge(CalledGeometry[1], CalledGeometry[3])

(***************************************************************************)
(* C9: cache hits.                                                         *)
(***************************************************************************)
\* C9: a call returns what the cache holds for its mesh afterwards, is a hit
\* exactly when the mesh had an entry, and a hit leaves the cache as it was;
\* so a call on a mesh right after a call on the same mesh returns the same
\* groups and faceToGroup and is a hit; a call on one mesh leaves the cache
\* entry of every other mesh unchanged.
C9_SecondCallIsHit ==
  [][returned' # NoCall =>
       /\ \A m \in Meshes \ {returned'.mesh} : faceGroupsCache'[m] = faceGroupsCache[m]
       /\ returned'.result = faceGroupsCache'[returned'.mesh]
       /\ returned'.hit = (faceGroupsCache[returned'.mesh] # NoEntry)
       /\ returned'.hit => faceGroupsCache' = faceGroupsCache
       /\ (returned # NoCall /\ returned.mesh = returned'.mesh) =>
            /\ returned'.result = returned.result
            /\ returned'.hit]_vars

\* A second call on a mesh of two groups, while another mesh is cached too.
C9_Witness ==
  /\ returned # NoCall
  /\ returned.hit
  /\ Len(CalledGroups) = 2
  /\ \E m \in Meshes \ {returned.mesh} :
       /\ faceGroupsCache[m] # NoEntry
       /\ faceGroupsCache[m] # returned.result

(***************************************************************************)
(* C10: the perimeter of a group.                                          *)
(***************************************************************************)
HighlightGeometry == geometry[hoverHighlight.mesh]

HighlightGroup ==
  faceGroupsCache[hoverHighlight.mesh].groups[hoverHighlight.groupIndex + 1]

\* The sides of the group's triangles: <<face, side>>.
GroupSides == Range(HighlightGroup.faceIndices) \X (1..3)

\* The undirected edge of a side: its two end points as toFixed(6) prints them.
SideEnds(x) ==
  {keyVertex(vertexKey(HighlightGeometry[x[1] + 1][x[2]])),
   keyVertex(vertexKey(HighlightGeometry[x[1] + 1][(x[2] % 3) + 1]))}

DrawnEdges == {{hoverHighlight.edges[i][1], hoverHighlight.edges[i][2]} :
                 i \in 1..Len(hoverHighlight.edges)}

IsFlatQuad(g) ==
  /\ Len(g) = 2
  /\ TriQ1 \in Range(g)
  /\ Range(g) \cap {TriQ2, TriQ2Rotated, TriQ2Flipped, TriQ2Off} # {}

\* C10: the perimeter drawn for a group is exactly the set of undirected
\* edges that are a side of the group's triangles once; for the flat quad of
\* 2 triangles it has exactly 4 edges and omits the diagonal PA-PC, whatever
\* the vertex order of the triangles.  Edges are told apart by the
\* toFixed(6) print of their two end points.
C10_PerimeterIsEdgesOnce ==
  hoverHighlight # NoHighlight =>
    /\ DrawnEdges =
         {SideEnds(x) : x \in {y \in GroupSides :
            Cardinality({z \in GroupSides : SideEnds(z) = SideEnds(y)}) = 1}}
    /\ IsFlatQuad(HighlightGeometry) =>
         /\ Len(hoverHighlight.edges) = 4
         /\ DrawnEdges = {{PA, PB}, {PB, PC}, {PC, PD}, {PD, PA}}

\* The perimeter of the flat quad whose second triangle has the opposite winding.
C10_Witness ==
  /\ hoverHighlight # NoHighlight
  /\ HighlightGeometry = <<TriQ1, TriQ2Flipped>>
  /\ Len(HighlightGroup.faceIndices) = 2
  /\ Len(hoverHighlight.edges) = 4

(***************************************************************************)
(* C11: back faces of a body are never picked.                             *)
(***************************************************************************)
\* Every triangle of the body face (mesh, group) has its normal pointing
\* away from the camera.
IsBackFace(face, faceIndex) ==
  \A f \in Range(faceGroupsCache[face.uuid].groups[faceIndex.index + 1].faceIndices) :
    VDot(getFaceNormal(geometry[face.uuid], f),
         VSub(camera, geometry[face.uuid][f + 1][1])) < 0

HoveredIsBackFace == IsBackFace(hoveredFace, hoveredFaceIndex)

SelectedIsBackFace == IsBackFace(selectedFace, selectedFaceIndex)

\* C11: in any sequence of mouse moves, clicks, context menus and camera
\* changes, a face of a body whose triangles all point away from the camera
\* never becomes the hovered face and never becomes the selected face.
C11_BackFaceNeverPicked ==
  [][/\ (/\ hoveredFace' # Null
         /\ <<hoveredFace', hoveredFaceIndex'>> # <<hoveredFace, hoveredFaceIndex>>
         /\ ~sketchFace(hoveredFace'.uuid))
        => ~HoveredIsBackFace'
     /\ (/\ selectedFace' # Null
         /\ <<selectedFace', selectedFaceIndex'>> # <<selectedFace, selectedFaceIndex>>
         /\ ~sketchFace(selectedFace'.uuid))
        => ~SelectedIsBackFace']_vars

(***************************************************************************)
(* C12: the loops of one detectClosedLoops result share no edge.           *)
(***************************************************************************)
\* C12: in the list returned by detectClosedLoops no edge id appears in two
\* different loops.
C12_LoopsShareNoEdge ==
  \A j, k \in 1..Len(detectClosedLoops) :
    j # k => Range(detectClosedLoops[j]) \cap Range(detectClosedLoops[k]) = {}

\* Two loops were returned for a sketch in which some edge outside the first
\* loop touches it.
C12_Witness ==
  /\ Len(detectClosedLoops) >= 2
  /\ \E i \in EdgeIdx :
       /\ edges[i].id \notin Range(detectClosedLoops[1])
       /\ Ends(i) \cap EndsOf({n \in EdgeIdx : edges[n].id \in Range(detectClosedLoops[1])}) # {}

(***************************************************************************)
(* C13: every returned loop is a closed walk.                              *)
(***************************************************************************)
\* The vertex id reached after walking the first k edges of the loop, the
\* first edge walked from its v1 to its v2 and every later edge from the
\* vertex reached so far to its other endpoint.
RECURSIVE ReachedAfter(_, _)
ReachedAfter(loop, k) ==
  IF k = 1 THEN getEdge(loop[1]).v2
  ELSE LET e == getEdge(loop[k])
           at == ReachedAfter(loop, k - 1)
       IN IF e.v1 = at THEN e.v2 ELSE e.v1

IsClosedWalk(loop) ==
  /\ Len(loop) >= 3
  /\ Distinct(loop)
  /\ \A k \in 2..Len(loop) : ReachedAfter(loop, k - 1) \in
                               {getEdge(loop[k]).v1, getEdge(loop[k]).v2}
  /\ ReachedAfter(loop, Len(loop)) = getEdge(loop[1]).v1

\* C13: every loop returned by detectClosedLoops has at least 3 edge ids, none
\* of them twice, each edge after the first is incident to the vertex reached
\* so far, and the walk ends at v1 of its first edge.
C13_LoopIsClosedWalk ==
  \A k \in 1..Len(detectClosedLoops) : IsClosedWalk(detectClosedLoops[k])

\* A loop was returned that walks some edge against its v1 -> v2 direction and
\* passes a vertex with more than two edge ends.
C13_Witness ==
  \E k \in 1..Len(detectClosedLoops) :
    LET loop == detectClosedLoops[k]
    IN /\ \E n \in 2..Len(loop) : ReachedAfter(loop, n) = getEdge(loop[n]).v1
       /\ \E n \in 1..Len(loop) : EndCount(ReachedAfter(loop, n)) > 2

(***************************************************************************)
(* C14: a sketch without a cycle has no loop.                              *)
(***************************************************************************)
Acyclic == \A i \in EdgeIdx : ~OnCycle(i)

\* C14: when no edge of the sketch lies on a cycle (an open polyline, a tree,
\* isolated edges), detectClosedLoops returns the empty list.
C14_AcyclicNoLoop == Acyclic => detectClosedLoops = <<>>

\* An open polyline of three vertices and two edges, searched for loops.
C14_Witness ==
  /\ Len(vertices) = 3
  /\ Len(edges) = 2
  /\ Cardinality(EndsOf(EdgeIdx)) = 3
  /\ EndsOf(EdgeIdx) = VertexIds
  /\ Acyclic
  /\ detectClosedLoops = <<>>

(***************************************************************************)
(* C15: the consumers of loop detection on malformed topology.             *)
(***************************************************************************)
\* C15: for every sketch reachable by addVertex and addEdge, getLoopVertices
\* on each loop returned by detectClosedLoops returns only existing vertices,
\* and createSelectionMeshes, Extrude.toGeometry and Extrude.toMesh complete
\* without throwing.
C15_ConsumersNeverThrow ==
  /\ \A k \in 1..Len(detectClosedLoops) :
       ~HasUndefined(getLoopVertices(detectClosedLoops[k]))
  /\ createSelectionMeshes # Throws
  /\ \A direction \in Directions : toGeometry(1, direction) # Throws
  /\ extrudeReturned # NoCall => extrudeReturned.returned # Throws

(***************************************************************************)
(* C16: extruding a sketch without a loop.                                 *)
(***************************************************************************)
\* C16: a toGeometry or toMesh call on a sketch for which detectClosedLoops
\* returns the empty list returns null, and leaves the vertices, the edges and
\* the two id counters of the sketch as they were.
C16_NoLoopExtrudesToNull ==
  [][(extrudeReturned' # extrudeReturned /\ detectClosedLoops = <<>>) =>
       /\ extrudeReturned'.returned = Null
       /\ UNCHANGED sketchVars]_vars

\* toMesh has returned null for an open polyline of three vertices.
C16_Witness ==
  /\ Len(vertices) = 3
  /\ Len(edges) = 2
  /\ EndsOf(EdgeIdx) = VertexIds
  /\ detectClosedLoops = <<>>
  /\ extrudeReturned = [method |-> "toMesh", returned |-> Null]

(***************************************************************************)
(* Sketch: the operations as a state machine.                              *)
(***************************************************************************)
AddVertexStep ==
  /\ Len(vertices) < MaxVertices
  /\ \E p \in VertexPositions : addVertex(p[1], p[2])
  /\ UNCHANGED besidesSketch

\* addEdge does not validate its endpoints: the callers pass ids of existing
\* vertices or an id no vertex has yet (nextVertexId).
AddEdgeStep ==
  /\ Len(edges) < MaxEdges
  /\ \E v1Id \in 0..nextVertexId, v2Id \in 0..nextVertexId : addEdge(v1Id, v2Id)
  /\ UNCHANGED besidesSketch

SketchNext == AddVertexStep \/ AddEdgeStep

\* A box drawn once, with edges added before or after it between the four
\* vertex ids of the box.
AddBoxStep ==
  /\ Len(vertices) + 4 <= MaxVertices
  /\ \E box \in BoxInputs : addBox(box[1], box[2], box[3], box[4])
  /\ UNCHANGED besidesSketch

AddChordStep ==
  /\ Len(edges) - Len(vertices) < MaxChords
  /\ \E v1Id \in BoxVertexIds, v2Id \in BoxVertexIds : addEdge(v1Id, v2Id)
  /\ UNCHANGED besidesSketch

\* A ring of up to MaxRing vertices drawn around: each vertex is joined to
\* the one before it as soon as it is added, and the last to the first.
RingVertexStep ==
  /\ detecting = NotDetecting
  /\ Len(vertices) < MaxRing
  /\ Len(edges) < Len(vertices) \/ Len(vertices) = 0
  /\ Len(edges) = Len(vertices) - 1 \/ Len(vertices) = 0
  /\ \E p \in VertexPositions : addVertex(p[1], p[2])
  /\ UNCHANGED besidesSketch

RingEdgeStep ==
  /\ detecting = NotDetecting
  /\ Len(vertices) >= 2
  /\ Len(edges) = Len(vertices) - 2
  /\ addEdge(nextVertexId - 2, nextVertexId - 1)
  /\ UNCHANGED besidesSketch

RingCloseStep ==
  /\ detecting = NotDetecting
  /\ Len(vertices) >= 3
  /\ Len(edges) = Len(vertices) - 1
  /\ addEdge(nextVertexId - 1, 0)
  /\ UNCHANGED besidesSketch

besidesDetect == <<sketchVars, faceVars, selectVars, featureVars, editorVars>>

\* detectClosedLoops is called on the small sketches and on the closed rings
\* within 2 edges of the largest.
DetectStartStep ==
  /\ detecting = NotDetecting
  /\ Len(edges) <= 3 \/ (Len(edges) = Len(vertices) /\ Len(edges) >= MaxRing - 2)
  /\ detectStart
  /\ UNCHANGED besidesDetect

ForEachEdgeStep == forEachEdge /\ UNCHANGED besidesDetect

WhileIterationStep == whileIteration /\ UNCHANGED besidesDetect

DetectReturnStep == detectReturn /\ UNCHANGED besidesDetect

Init == SketchInit /\ FaceIdle /\ SelectIdle /\ FeatureIdle

Next == SketchNext

Spec == Init /\ [][Next]_vars

LoopsNext == AddBoxStep \/ AddChordStep

SpecLoops == Init /\ [][LoopsNext]_vars

\* The profiles handed to Extrude: sketches of one edge less than MaxEdges.
AddProfileEdgeStep ==
  /\ Len(edges) < MaxEdges - 1
  /\ \E v1Id \in 0..nextVertexId, v2Id \in 0..nextVertexId : addEdge(v1Id, v2Id)
  /\ UNCHANGED besidesSketch

ExtrudeNext == AddVertexStep \/ AddProfileEdgeStep \/ ToGeometryStep \/ ToMeshStep

SpecExtrude == Init /\ [][ExtrudeNext]_vars

LoadNext == AddVertexStep \/ AddProfileEdgeStep \/ FromJSONStep \/ SaveLoadStep

SpecLoad == Init /\ [][LoadNext]_vars

SpecPlane == Init /\ [][PlaneNext]_vars

(***************************************************************************)
(* C17: vertex and edge ids.                                               *)
(***************************************************************************)
IdsDistinct(records) ==
  \A i, j \in 1..Len(records) : i # j => records[i].id # records[j].id

\* The id of the last record is larger than every id of the records before.
LastIdLargest(before, after) ==
  \A i \in 1..Len(before) : after[Len(after)].id > before[i].id

\* max(existing ids) + 1, or 0 when the list is empty.
CounterAfterLoad(records) ==
  IF Len(records) = 0 THEN 0
  ELSE 1 + CHOOSE m \in {records[i].id : i \in 1..Len(records)} :
             \A i \in 1..Len(records) : records[i].id <= m

\* C17: from an empty sketch or from Sketch.fromJSON of data with distinct
\* ids, after any sequence of addVertex and addEdge calls all vertex ids are
\* pairwise distinct and all edge ids are pairwise distinct; each id given by
\* addVertex or addEdge is larger than every id already present; right after
\* fromJSON each counter equals max(existing ids) + 1, or 0 for an empty list.
C17_IdsDistinctAndGrowing ==
  /\ [](IdsDistinct(vertices) /\ IdsDistinct(edges))
  /\ [][/\ AddVertexStep => LastIdLargest(vertices, vertices')
        /\ AddProfileEdgeStep => LastIdLargest(edges, edges')
        /\ (FromJSONStep \/ SaveLoadStep) =>
             /\ nextVertexId' = CounterAfterLoad(vertices')
             /\ nextEdgeId' = CounterAfterLoad(edges')]_vars

\* A vertex and an edge were added to a loaded sketch whose ids were neither
\* contiguous nor in order.
C17_Witness ==
  /\ Len(vertices) = 3
  /\ vertices[1].id = 2
  /\ vertices[2].id = 1
  /\ vertices[3].id = 3
  /\ Len(edges) = 2
  /\ edges[1].id = 1
  /\ edges[2].id = 2

(***************************************************************************)
(* C18: the basis of a constructed plane.                                  *)
(***************************************************************************)
IsUnit(a) == VDot(a, a) = PlaneScale * PlaneScale

\* C18: every constructed Plane (constructor, fromNormal, fromCameraView, XY,
\* XZ, YZ, clone, fromJSON, for a normal of any non-zero length) has uAxis,
\* vAxis and normal of unit length and pairwise perpendicular, with
\* vAxis x normal = uAxis.
C18_BasisIsOrthonormal ==
  /\ IsUnit(plane.uAxis)
  /\ IsUnit(plane.vAxis)
  /\ IsUnit(plane.normal)
  /\ VDot(plane.uAxis, plane.vAxis) = 0
  /\ VDot(plane.uAxis, plane.normal) = 0
  /\ VDot(plane.vAxis, plane.normal) = 0
  /\ VCross(plane.vAxis, plane.normal) =
       <<PlaneScale * plane.uAxis[1], PlaneScale * plane.uAxis[2],
         PlaneScale * plane.uAxis[3]>>

(***************************************************************************)
(* C19: plane coordinates to world coordinates and back.                   *)
(***************************************************************************)
\* C19: on every plane built by the constructor, fromNormal, XY, XZ, YZ,
\* clone, fromJSON, or by fromCameraView with a camera-up that is not parallel
\* to the normal (which leaves no axis zero), toPlane(toWorld(u, v)) is
\* (u, v), for every integer u and v of the bound.
C19_RoundTrip ==
  (/\ roundTrip # Null
   /\ roundTrip.plane.uAxis # <<0, 0, 0>>
   /\ roundTrip.plane.vAxis # <<0, 0, 0>>) =>
    roundTrip.returned = [u |-> <<roundTrip.u, 1>>, v |-> <<roundTrip.v, 1>>]

\* A point off both axes was taken to the world and back on a plane away from
\* the world origin whose normal is along no axis.
C19_Witness ==
  /\ roundTrip # Null
  /\ roundTrip.u = 1
  /\ roundTrip.v = -1
  /\ roundTrip.plane.origin # <<0, 0, 0>>
  /\ Cardinality({i \in 1..3 : roundTrip.plane.normal[i] # 0}) = 2
  /\ roundTrip.returned = [u |-> <<1, 1>>, v |-> <<-1, 1>>]

(***************************************************************************)
(* C20: the plane of a loaded sketch.                                      *)
(***************************************************************************)
\* The plane a saved sketch stores: origin and normal only.
StoredPlane == IF HasAxes(plane) THEN PlaneToJSON(plane) ELSE plane

\* C20: after Sketch.fromJSON of the serialized form of a sketch, the plane of
\* the loaded sketch is the plane the fromNormal rule builds from the stored
\* origin and normal, with its uAxis and vAxis, and the vertices, edges and
\* parameters equal the saved ones.
C20_LoadRederivesPlane ==
  [][SaveLoadStep =>
       /\ HasAxes(plane')
       /\ plane' = PlaneFromJSON(StoredPlane)
       /\ vertices' = vertices
       /\ edges' = edges
       /\ parameters' = parameters]_vars

SolidNext == NewSketchStep \/ AddBoxStep \/ ExtrudeStep

SpecSolid == Init /\ [][SolidNext]_vars

(***************************************************************************)
(* C21: the extruded solid.                                                *)
(***************************************************************************)
IsGeometry(x) == "shape" \in DOMAIN x

\* The (u, v) points of the loop Extrude takes as its profile.
ProfilePoints ==
  LET loopVertices == getLoopVertices(detectClosedLoops[1])
  IN {<<loopVertices[i].u, loopVertices[i].v>> : i \in 1..Len(loopVertices)}

\* The largest difference of the components along the plane normal of two
\* of the points W, in units of 1 / PlaneScale^2.
ExtentAlongNormal(W) ==
  CHOOSE e \in {VDot(a, plane.normal) - VDot(b, plane.normal) : a, b \in W} :
    \A a, b \in W : VDot(a, plane.normal) - VDot(b, plane.normal) <= e

\* C21: for a closed loop on plane P extruded with distance d > 0 and
\* direction s, the vertices of the geometry are the points
\* P.toWorld(u, v) + t * P.normal for (u, v) on the loop polygon and t at 0
\* and at d * s, the extent along the plane normal is exactly d, and the
\* vertices projected back onto the plane (toPlane) are the loop polygon.
C21_SolidSweepsProfile ==
  [][(extrudeReturned' # extrudeReturned /\ IsGeometry(extrudeReturned'.returned)) =>
       LET g == extrudeReturned'.returned
           W == appliedVertices(g)
       IN /\ W = {VAdd(toWorld(plane, q[1], q[2]), VScale(plane.normal, t)) :
                    q \in ProfilePoints, t \in {0, g.depth}}
          /\ ExtentAlongNormal(W) = Abs(g.depth) * PlaneScale * PlaneScale
          /\ {toPlane(plane, w) : w \in W} =
               {[u |-> <<q[1], 1>>, v |-> <<q[2], 1>>] : q \in ProfilePoints}]_vars

(***************************************************************************)
(* C22: perimeter edge keys against the adjacency test.                    *)
(***************************************************************************)
\* The two end points of a side of the highlighted group, as the mesh holds
\* them.
SidePoints(x) ==
  <<HighlightGeometry[x[1] + 1][x[2]], HighlightGeometry[x[1] + 1][(x[2] % 3) + 1]>>

\* Sides of two triangles of the group that are one edge under the adjacency
\* test: their end points are pairwise within VERTEX_THRESHOLD.
SameEdgeByAdjacency(x, y) ==
  LET a == SidePoints(x)
      b == SidePoints(y)
  IN /\ x[1] # y[1]
     /\ \/ Near(a[1], b[1]) /\ Near(a[2], b[2])
        \/ Near(a[1], b[2]) /\ Near(a[2], b[1])

\* C22: whenever two triangles of a group share an edge under the adjacency
\* test (end points within VERTEX_THRESHOLD of each other), both copies of
\* the edge have one edge key in the perimeter count, so that the edge is
\* counted at least twice and is not drawn as a perimeter edge.
C22_SharedEdgeHasOneKey ==
  hoverHighlight # NoHighlight =>
    \A x, y \in GroupSides :
      SameEdgeByAdjacency(x, y) =>
        /\ edgeKey(SidePoints(x)[1], SidePoints(x)[2]) =
             edgeKey(SidePoints(y)[1], SidePoints(y)[2])
        /\ SideEnds(x) \notin DrawnEdges

(***************************************************************************)
(* C23: a loop attempt that does not close marks no edge as visited.       *)
(***************************************************************************)
\* The position in this.edges of the edge with this id.
PositionOf(edgeId) == CHOOSE i \in EdgeIdx : edges[i].id = edgeId

\* The edges of the loops returned for starting edges before position i.
AcceptedBefore(loops, i) ==
  UNION {Range(loops[k]) : k \in {n \in 1..Len(loops) : PositionOf(loops[n][1]) < i}}

\* An attempt is accepted when it closed with at least 3 edges.
Accepted(attempt) == attempt # <<>> /\ Len(attempt) >= 3

\* C23: the visited set an attempt meets holds the edges of the loops
\* accepted before it and nothing else: an edge outside those loops is tried
\* as a starting edge, its attempt walks every edge outside those loops, the
\* attempt is returned when it closed with at least 3 edges, and otherwise no
\* loop starts there; edges walked by attempts that did not close stay
\* available.
C23_OnlyAcceptedLoopsAreVisited ==
  LET loops == detectClosedLoops
  IN \A i \in EdgeIdx :
       LET visitedEdges == AcceptedBefore(loops, i)
           attempt == findLoop(edges[i], visitedEdges)
       IN IF edges[i].id \in visitedEdges
          THEN \A k \in 1..Len(loops) : PositionOf(loops[k][1]) # i
          ELSE IF Accepted(attempt)
               THEN \E k \in 1..Len(loops) : loops[k] = attempt
               ELSE \A k \in 1..Len(loops) : PositionOf(loops[k][1]) # i

\* An attempt that did not close walked an edge that a later attempt starts
\* from and returns in its loop.
C23_Witness ==
  /\ Len(edges) = MaxEdges
  /\ ~Accepted(findLoop(edges[1], {}))
  /\ Len(detectClosedLoops) = 1
  /\ detectClosedLoops[1][1] \in Range(walkedEdges(edges[1], {}))
  /\ edges[1].id \in Range(detectClosedLoops[1])

\* A sketch of MaxVertices - 1 vertices drawn first and then joined by up to
\* MaxEdges - 1 edges, with detectClosedLoops called at any time between.
EditVertexStep ==
  /\ ~Detecting
  /\ Len(vertices) < MaxVertices - 1
  /\ \E p \in VertexPositions : addVertex(p[1], p[2])
  /\ UNCHANGED besidesSketch

EditEdgeStep ==
  /\ ~Detecting
  /\ Len(vertices) = MaxVertices - 1
  /\ Len(edges) < MaxEdges - 1
  /\ \E v1Id \in 0..(nextVertexId - 1), v2Id \in 0..(nextVertexId - 1) : addEdge(v1Id, v2Id)
  /\ UNCHANGED besidesSketch

CallStep == detectStart /\ UNCHANGED besidesDetect

RecallNext ==
  EditVertexStep \/ EditEdgeStep \/ CallStep \/ ForEachEdgeStep \/ WhileIterationStep
    \/ DetectReturnStep

SpecRecall == Init /\ [][RecallNext]_vars

\* A box and chords drawn in any order until the sketch is first extruded;
\* then Sketch.fromJSON of the plane, the vertices and the edges of the first
\* loop alone, with the number of loops the sketch had noted beside what
\* toGeometry returned for it.
DrawBoxStep == extrudeReturned = NoCall /\ AddBoxStep

DrawChordStep == extrudeReturned = NoCall /\ AddChordStep

\* The records of s with an id of ids, in their order.
RECURSIVE WithIds(_, _)
WithIds(s, ids) ==
  IF s = <<>> THEN <<>>
  ELSE (IF Head(s).id \in ids THEN <<Head(s)>> ELSE <<>>) \o WithIds(Tail(s), ids)

\* The sketch reduced to the edges of a loop and the vertices they join.
OnlyLoop(loop) ==
  LET loopEdges == WithIds(edges, Range(loop))
      ends == UNION {{loopEdges[i].v1, loopEdges[i].v2} : i \in 1..Len(loopEdges)}
  IN [plane |-> plane, vertices |-> WithIds(vertices, ends), edges |-> loopEdges,
      constraints |-> constraints, parameters |-> parameters]

KeepFirstLoopStep ==
  /\ extrudeReturned # NoCall
  /\ "loops" \notin DOMAIN extrudeReturned
  /\ edges # <<>>
  /\ LET loops == detectClosedLoops
     IN /\ Len(loops) >= 1
        /\ SketchFromJSON(OnlyLoop(loops[1]))
        /\ extrudeReturned' = [method |-> extrudeReturned.method,
                               returned |-> extrudeReturned.returned,
                               loops |-> Len(loops)]
  /\ UNCHANGED <<faceVars, selectVars, roundTrip, detectVars, editorVars>>

FirstLoopNext == DrawBoxStep \/ DrawChordStep \/ ToGeometryStep \/ KeepFirstLoopStep

SpecFirstLoop == Init /\ [][FirstLoopNext]_vars

DetectNext == DetectStartStep \/ ForEachEdgeStep \/ WhileIterationStep \/ DetectReturnStep

RingNext == RingVertexStep \/ RingEdgeStep \/ RingCloseStep \/ DetectNext

SpecRing == Init /\ [][RingNext]_vars

(***************************************************************************)
(* C24: the cap on the steps of a loop attempt.                            *)
(***************************************************************************)
\* The sketch is one simple cycle drawn around: edge i joins vertex i - 1 to
\* vertex i, the last edge joins the last vertex to vertex 0.
IsRing ==
  /\ Len(edges) >= 3
  /\ Len(edges) = Len(vertices)
  /\ \A i \in EdgeIdx : edges[i].v1 = i - 1 /\ edges[i].v2 = i % Len(edges)

\* The cap on the edge-steps of an attempt.
StepCap == 100

\* Every loop attempt has pushed at most StepCap edges after its starting
\* edge.
AttemptWithinCap ==
  (Detecting /\ detecting.attempt # NoAttempt) =>
    Len(detecting.attempt.loop) - 1 <= StepCap

\* What is returned for a sketch that is one simple cycle: one loop of all
\* its edges when an attempt can close it in StepCap steps after the
\* starting edge, and otherwise no loop.
RingWithinCapReturned ==
  (Returned /\ IsRing) =>
    IF Len(edges) - 1 <= StepCap
    THEN /\ Len(detecting.returned) = 1
         /\ Range(detecting.returned[1]) = EdgeIds
         /\ Len(detecting.returned[1]) = Len(edges)
    ELSE detecting.returned = <<>>

\* What is left of a detectClosedLoops call: the edges the forEach has not
\* come to, each worth a whole attempt, and the iterations left to the
\* attempt under way.
StepsLeft ==
  IF Returned THEN 0
  ELSE 1 + (Len(edges) + 1 - detecting.index) * (maxIterations + 3)
         + (IF detecting.attempt = NoAttempt THEN maxIterations + 2
            ELSE detecting.attempt.iterationsLeft + 1)

\* A call under way is at an edge of the sketch or past the last one, where
\* it returns: one of forEachEdge, whileIteration and detectReturn can be
\* taken.
CanGoOn ==
  Detecting =>
    /\ detecting.index \in 1..(Len(edges) + 1)
    /\ detecting.attempt # NoAttempt => detecting.index <= Len(edges)
    /\ StepsLeft > 0

\* C24: every loop attempt performs at most 100 edge-steps after its
\* starting edge; a call of detectClosedLoops terminates (it can always go
\* on, and every step of it takes from the bounded number of steps left);
\* an attempt that is not back at its start vertex within the cap yields no
\* loop, so that a single simple cycle that needs more steps is not returned.
C24_AttemptIsCapped ==
  /\ []AttemptWithinCap
  /\ []RingWithinCapReturned
  /\ []CanGoOn
  /\ [][Detecting => StepsLeft' < StepsLeft]_vars

\* A simple cycle of more edges than the cap allows: nothing is returned.
C24_Witness ==
  /\ IsRing
  /\ Len(edges) > StepCap + 1
  /\ Returned
  /\ detecting.returned = <<>>

(***************************************************************************)
(* C25: detectClosedLoops stores nothing.                                  *)
(***************************************************************************)
\* C25: a call of detectClosedLoops leaves vertices, edges, nextVertexId and
\* nextEdgeId unchanged; what it returns is computed from the vertices and
\* edges at the time of the call; two consecutive calls on an unchanged
\* sketch return equal lists, and a call made after an addEdge returns the
\* loops of the sketch with that edge.
C25_RecomputedEachCall ==
  /\ [][Detecting => UNCHANGED sketchVars]_vars
  /\ [][(Detecting /\ Returned') => detecting'.returned = detectClosedLoops]_vars
  /\ [](Returned /\ detecting.previous # NotDetecting
         /\ detecting.previous.edges = detecting.edges =>
           detecting.returned = detecting.previous.returned)

\* A first call returned no loop, an addEdge then closed a cycle, and the
\* next call returned it.
C25_Witness ==
  /\ Returned
  /\ detecting.previous # NotDetecting
  /\ detecting.previous.returned = <<>>
  /\ Len(detecting.edges) = Len(detecting.previous.edges) + 1
  /\ Len(detecting.returned) = 1
  /\ edges = detecting.edges

\* Two calls in a row on a sketch with a closed loop.
C25_WitnessSame ==
  /\ Returned
  /\ detecting.previous # NotDetecting
  /\ detecting.previous.edges = detecting.edges
  /\ detecting.returned # <<>>

(***************************************************************************)
(* C26: the order of the returned loops.                                   *)
(***************************************************************************)
\* C26: detectClosedLoops returns the loops in the order in which their
\* starting edges were tried: the first element of each loop is the edge its
\* attempt started from (the loop is what findLoop returns from that edge
\* against the loops before it), and the starting edges of successive loops
\* are at strictly increasing positions of this.edges.
C26_LoopsInStartOrder ==
  LET loops == detectClosedLoops
  IN /\ \A k \in 1..Len(loops) :
          /\ loops[k][1] \in EdgeIds
          /\ loops[k] =
               findLoop(edges[PositionOf(loops[k][1])],
                        UNION {Range(loops[n]) : n \in 1..(k - 1)})
     /\ \A k \in 1..(Len(loops) - 1) :
          PositionOf(loops[k][1]) < PositionOf(loops[k + 1][1])

\* Two loops, the second started from a chord drawn after the box.
C26_Witness ==
  /\ Len(detectClosedLoops) = 2
  /\ PositionOf(detectClosedLoops[1][1]) = 1
  /\ PositionOf(detectClosedLoops[2][1]) > 4

(***************************************************************************)
(* C27: Extrude.toGeometry extrudes the first loop alone.                  *)
(***************************************************************************)
\* The sketch has been reduced to its first loop since toGeometry was called.
Kept == "loops" \in DOMAIN extrudeReturned

\* toGeometry of the sketch as it is now, in the direction of the call whose
\* result is held.
ExtrudedNow ==
  toGeometry(1, IF IsGeometry(extrudeReturned.returned)
                THEN extrudeReturned.returned.depth ELSE 1)

Rotated(s, k) == [i \in 1..Len(s) |-> s[((i + k - 1) % Len(s)) + 1]]

Reversed(s) == [i \in 1..Len(s) |-> s[Len(s) + 1 - i]]

\* The same closed polygon: the same points in the same cyclic order, from
\* any starting point and in either direction.
SamePolygon(a, b) ==
  /\ Len(a) = Len(b)
  /\ \E k \in 0..(Len(a) - 1) : Rotated(a, k) = b \/ Rotated(Reversed(a), k) = b

SameSolid(x, y) ==
  IF IsGeometry(x) /\ IsGeometry(y)
  THEN /\ x.depth = y.depth
       /\ x.basis = y.basis
       /\ x.position = y.position
       /\ SamePolygon(x.shape, y.shape)
  ELSE x = y

\* The profile toGeometry extrudes is getLoopVertices of the first loop.
ProfileIsFirstLoop ==
  LET loops == detectClosedLoops
  IN Len(loops) >= 1 =>
       \A direction \in Directions :
         LET extruded == toGeometry(1, direction)
         IN IsGeometry(extruded) => extruded.shape = ShapeOf(getLoopVertices(loops[1]))

\* C27 as stated: when the sketch has several closed loops, the profile
\* toGeometry extrudes is getLoopVertices of the first loop of
\* detectClosedLoops, and the result equals the result for the sketch that
\* holds only the vertices and the edges of that loop.
C27_Original ==
  /\ ProfileIsFirstLoop
  /\ (Kept /\ extrudeReturned.loops >= 2) => ExtrudedNow = extrudeReturned.returned

\* C27, amended: the profile toGeometry extrudes is getLoopVertices of the
\* first loop of detectClosedLoops, whatever other loops there are; when
\* that loop is a simple cycle, the result for the sketch that holds only its
\* vertices and edges has the same depth, basis and position and the same
\* profile polygon, up to the vertex the profile starts from and the
\* direction it runs in.
C27_ExtrudesFirstLoopOnly ==
  /\ ProfileIsFirstLoop
  /\ (Kept /\ IsSimpleCycleSet(EdgeIdx)) => SameSolid(ExtrudedNow, extrudeReturned.returned)

\* The first of two loops, a simple cycle, kept alone: the same solid, its
\* profile starting from another vertex.
C27_Witness ==
  /\ Kept
  /\ extrudeReturned.loops >= 2
  /\ IsGeometry(extrudeReturned.returned)
  /\ IsSimpleCycleSet(EdgeIdx)
  /\ ExtrudedNow # extrudeReturned.returned
  /\ SameSolid(ExtrudedNow, extrudeReturned.returned)

(***************************************************************************)
(* C28: clone and fromJSON(toJSON) against the axes of the plane.          *)
(***************************************************************************)
\* C28: for every plane p, one built by fromCameraView included, p.clone()
\* and Plane.fromJSON(p.toJSON()) have the origin, normal, uAxis and vAxis of
\* p, so that toWorld(u, v) gives the same world point for every (u, v).
C28_CopyKeepsMapping ==
  [][(CloneStep \/ PlaneJSONStep) =>
       /\ plane'.origin = plane.origin
       /\ plane'.normal = plane.normal
       /\ plane'.uAxis = plane.uAxis
       /\ plane'.vAxis = plane.vAxis
       /\ \A u \in Coordinates, v \in Coordinates :
            toWorld(plane', u, v) = toWorld(plane, u, v)]_vars

(***************************************************************************)
(* C29: the selection fields of FaceSelector against the face groups.      *)
(***************************************************************************)
\* A face of a body is selected.
BodyFaceSelected == selectedFace # Null /\ ~sketchFace(selectedFace.uuid)

\* selectedFaceIndex is the faceToGroup value of a triangle of the selected
\* mesh, and selectedFaceGroup is the group of that index and holds the
\* triangle.
SelectionIsGroupOfTriangle ==
  LET faceGroups == buildResult(selectedFace.uuid)
  IN /\ "index" \in DOMAIN selectedFaceIndex
     /\ \E f \in 0..(faceCount(geometry[selectedFace.uuid]) - 1) :
          /\ selectedFaceIndex.index = faceGroups.faceToGroup[f]
          /\ selectedFaceGroup = faceGroups.groups[selectedFaceIndex.index + 1]
          /\ \E i \in 1..Len(selectedFaceGroup.faceIndices) :
               selectedFaceGroup.faceIndices[i] = f

\* C29: whenever a face of a body is selected, selectedFaceIndex is the
\* group id faceToGroup gives for a triangle of the mesh and selectedFaceGroup
\* is the group of that index and contains the triangle; when no face is
\* selected, selectedFaceIndex and selectedFaceGroup are null.
C29_SelectionMatchesGroup ==
  /\ BodyFaceSelected => SelectionIsGroupOfTriangle
  /\ selectedFace = Null => selectedFaceIndex = Null /\ selectedFaceGroup = Null

(***************************************************************************)
(* C30: the editing session of SketchEditor.                               *)
(***************************************************************************)
EditorNext ==
  \/ createSketch
  \/ OpenSketchEditorStep
  \/ closeSketchEditor
  \/ AddBodyStep
  \/ ToggleVisibleStep
  \/ DeleteBodyStep

SpecEditor == Init /\ [][EditorNext]_vars

\* Every body of the folder `after` that was in the folder `before` has the
\* visible flag it had there.
FlagsAsIn(before, after) ==
  \A i \in 1..Len(after.children), j \in 1..Len(before.children) :
    after.children[i].uuid = before.children[j].uuid =>
      after.children[i].visible = before.children[j].visible

\* C30: isEditing is true exactly when activeSketch is not null; a call of
\* openSketchEditor or createSketch made while editing changes neither
\* activeSketch nor savedBodiesVisibility; and a closeSketchEditor that ends
\* a session leaves every body that was there at the opening with the visible
\* flag it had then, and camera rotation enabled.
C30_SessionIsExclusiveAndRestores ==
  /\ [](isEditing <=> activeSketch # Null)
  /\ [][(isEditing /\ (OpenSketchEditorStep \/ createSketch)) =>
          UNCHANGED <<activeSketch, savedBodiesVisibility>>]_vars
  /\ [][(isEditing /\ ~isEditing') =>
          /\ FlagsAsIn(bodiesAtOpening, bodies')
          /\ rotationEnabled']_vars

\* A session was closed over two bodies, one hidden and one shown before
\* the opening, both there and with those flags again; the second sketch
\* was created during a session (its container was never visualised).
C30_Witness ==
  /\ ~isEditing
  /\ bodiesAtOpening # Null
  /\ Len(sketches) = 2
  /\ sketches[2].children = {}
  /\ Len(bodies.children) = 2
  /\ Len(bodiesAtOpening.children) = 2
  /\ bodies.children[1].visible # bodies.children[2].visible
  /\ bodies = bodiesAtOpening
  /\ rotationEnabled

====
